---- MODULE Spec2Model ----
(***************************************************************************)
(* Model of the workflow preprocessor of actions-workflow-tools            *)
(* (src/lib/workflow-preprocessor.js): graph building, Kahn's algorithm,   *)
(* emission of the compiled step list, the bail_if rewrite, the process-   *)
(* wide path id registry and processFile's loop over the jobs of a file.   *)
(*                                                                         *)
(* Representation.  A JavaScript string is a sequence of tokens (TLA+      *)
(* strings); text a regular expression of the code scans is kept one       *)
(* character per token.  An absent (undefined) string field is <<>>.  An   *)
(* object with insertion-ordered keys (ctx.nodes, before, after, pathDeps) *)
(* is a sequence without duplicates.  A thrown error is the token sequence *)
(* of its message; <<>> means nothing was thrown.                          *)
(***************************************************************************)
EXTENDS Integers, Sequences, FiniteSets, TLC

VARIABLES
    setupSteps,       \* processFile: the Setup table of the file (mutable step objects)
    jobs,             \* processFile: data.jobs, in key order
    cur,              \* processFile: index of the job being compiled
    pc,               \* position inside compileSteps / processFile
    i,                \* compileSteps: index of the job.steps.forEach iteration
    nodes,            \* compileSteps: ctx.nodes, in insertion order
    ordering,         \* compileSteps: result of kahnsAlgorithm
    steps,            \* compileSteps: the local compiled list
    origin,           \* history: the node that emitted each entry of steps
    assignedPathIds,  \* module-level registry of generated path-check ids
    error,            \* message of the error thrown, <<>> when none
    written,          \* processFile: the output file has been written
    source,           \* history: the file as written (table and jobs before compilation)
    log,              \* history: finished compilations of earlier processes / files
    args,             \* run: what the command line asks for (jobs, a step, all matching steps)
    matched,          \* run: the steps findNamedSteps returned, each with its sort key
    allJobs,          \* run: the jobs getJobs returned, each a list of steps
    rpc,              \* position inside run / runJobs / runSteps
    rj,               \* runJobs: index of the job of the outer loop
    rs,               \* runJobs, runSteps: index of the step of the loop
    errors,           \* run: the error tally
    started,          \* history: the child processes spawned, with their results
    exitCode          \* the exit code of the runner, <<>> while it runs

compilerVars == << setupSteps, jobs, cur, pc, i, nodes, ordering, steps, origin,
                   assignedPathIds, error, written, source, log >>

runnerVars == << args, matched, allJobs, rpc, rj, rs, errors, started, exitCode >>

vars == << compilerVars, runnerVars >>

(***************************************************************************)
(* Bounds of the model.                                                    *)
(***************************************************************************)
MaxSteps == 2       \* steps per job
MaxDepth == 8       \* call-stack frames available to propagatePaths' recursion
MaxJobs == 2        \* jobs of the first file a process is given
MaxFiles == 2       \* files compiled in one behaviour

(***************************************************************************)
(* Generic sequence helpers.                                               *)
(***************************************************************************)
Range(s) == { s[k] : k \in 1..Len(s) }

Contains(s, x) == \E k \in 1..Len(s) : s[k] = x

IndexOf(s, x) == IF Contains(s, x) THEN CHOOSE k \in 1..Len(s) : s[k] = x /\ \A j \in 1..(k-1) : s[j] # x ELSE 0

\* obj[key] = true on an insertion-ordered key list
SetKey(s, x) == IF Contains(s, x) THEN s ELSE Append(s, x)

\* delete obj[key]
DelKey(s, x) == SelectSeq(s, LAMBDA y : y # x)

RECURSIVE Flatten(_)
Flatten(ss) == IF ss = <<>> THEN <<>> ELSE Head(ss) \o Flatten(Tail(ss))

\* Array.prototype.join on an array of strings
RECURSIVE Join(_, _)
Join(ss, sep) ==
    IF ss = <<>> THEN <<>>
    ELSE IF Len(ss) = 1 THEN ss[1]
    ELSE ss[1] \o sep \o Join(Tail(ss), sep)

(***************************************************************************)
(* Characters.  Patterns and bail conditions are kept one character per    *)
(* token, so that sorting and the regular expressions act on them as the   *)
(* code's do.                                                              *)
(***************************************************************************)
\* the characters used by the inputs, in UTF-16 code unit order
CharOrder == << "#", "*", ".", "/", "a", "j", "s", "v" >>

\* \w of a JavaScript regular expression, restricted to the characters in use
WordChars == { "a", "j", "s", "v", "_" }

CodeUnit(c) == IndexOf(CharOrder, c)

\* a < b in the default Array.prototype.sort order (code units, prefix first)
RECURSIVE StrLess(_, _)
StrLess(a, b) ==
    IF b = <<>> THEN FALSE
    ELSE IF a = <<>> THEN TRUE
    ELSE IF a[1] = b[1] THEN StrLess(Tail(a), Tail(b))
    ELSE CodeUnit(a[1]) < CodeUnit(b[1])

RECURSIVE InsertSorted(_, _)
InsertSorted(sorted, x) ==
    IF sorted = <<>> THEN << x >>
    ELSE IF StrLess(x, sorted[1]) THEN << x >> \o sorted
    ELSE << sorted[1] >> \o InsertSorted(Tail(sorted), x)

\* paths.sort()
RECURSIVE SortStrings(_)
SortStrings(ss) ==
    IF ss = <<>> THEN <<>>
    ELSE InsertSorted(SortStrings(SubSeq(ss, 1, Len(ss) - 1)), ss[Len(ss)])

\* path.replace(/\W+/g, '_')
RECURSIVE Sanitize(_)
Sanitize(p) ==
    IF p = <<>> THEN <<>>
    ELSE IF p[1] \in WordChars THEN << p[1] >> \o Sanitize(Tail(p))
    ELSE IF Len(p) > 1 /\ p[2] \notin WordChars THEN Sanitize(Tail(p))
    ELSE << "_" >> \o Sanitize(Tail(p))

\* pattern.replace(/\./g, '\\.')
RECURSIVE EscapeDots(_)
EscapeDots(p) ==
    IF p = <<>> THEN <<>>
    ELSE (IF p[1] = "." THEN << "\\", "." >> ELSE << p[1] >>) \o EscapeDots(Tail(p))

RECURSIVE StarRun(_)
StarRun(p) == IF p # <<>> /\ p[1] = "*" THEN 1 + StarRun(Tail(p)) ELSE 0

\* .replace(/(\*\*\/\*)|\*+/g, ...): [ok, out]; ok is FALSE when the callback throws
RECURSIVE ReplaceStars(_)
ReplaceStars(p) ==
    IF p = <<>> THEN [ok |-> TRUE, out |-> <<>>]
    ELSE IF p[1] # "*" THEN
        LET r == ReplaceStars(Tail(p)) IN [ok |-> r.ok, out |-> << p[1] >> \o r.out]
    ELSE IF Len(p) >= 4 /\ SubSeq(p, 1, 4) = << "*", "*", "/", "*" >> THEN
        LET r == ReplaceStars(SubSeq(p, 5, Len(p))) IN [ok |-> r.ok, out |-> << ".", "*" >> \o r.out]
    ELSE
        LET n == StarRun(p)
            r == ReplaceStars(SubSeq(p, n + 1, Len(p)))
        IN  IF n = 1 THEN [ok |-> r.ok, out |-> << "[", "^", "/", "]", "*" >> \o r.out]
            ELSE IF n = 2 THEN [ok |-> r.ok, out |-> << ".", "*" >> \o r.out]
            ELSE [ok |-> FALSE, out |-> <<>>]

(***************************************************************************)
(* Steps.  A step object is a record; a field the code deletes or never    *)
(* sets holds its absent value.  ref is model bookkeeping for object       *)
(* identity: <<>> for an object of its own, << name, k >> for the k-th     *)
(* step object of setup name in the Setup table.                           *)
(***************************************************************************)
NoList == [t |-> "none"]

OneString(x) == [t |-> "string", v |-> x]

Array(xs) == [t |-> "array", v |-> xs]

BlankStep ==
    [ id |-> <<>>, name |-> <<>>, run |-> <<>>, if |-> <<>>, bail_if |-> <<>>,
      setup |-> NoList, paths |-> NoList, local |-> FALSE, local_env_flag |-> <<>>,
      ref |-> <<>> ]

\* const setupList = (setup) => setup ? (Array.isArray(setup) ? setup : [setup]) : []
setupList(setup) ==
    IF setup.t = "none" THEN <<>>
    ELSE IF setup.t = "array" THEN setup.v
    ELSE << setup.v >>

\* the script compilePaths writes for one translated pattern
PatternScript(translated) ==
    << "if [[ -n $(git diff --name-only refs/remotes/origin/$GITHUB_BASE_REF --relative | grep '^" >>
    \o translated
    \o << "$') ]]\nthen\necho \"::set-output name=changed::true\"\nexit 0\nfi" >>

\* compilePaths(id, paths): [ok, step, msg]
compilePaths(id, paths) ==
    LET tr == [k \in 1..Len(paths) |-> ReplaceStars(EscapeDots(paths[k]))]
        bad == { k \in 1..Len(paths) : ~tr[k].ok }
    IN  IF bad # {} THEN
            LET k == CHOOSE x \in bad : \A y \in bad : x <= y
            IN  [ ok |-> FALSE, step |-> BlankStep,
                  msg |-> << "Invalid pattern: " >> \o paths[k]
                          \o << " - only * and ** replacements are supported" >> ]
        ELSE
            [ ok |-> TRUE,
              step |-> [ BlankStep EXCEPT
                  !.id = id,
                  !.name = << "Check paths: " >> \o Join(paths, << ", " >>),
                  !.run = Join([k \in 1..Len(paths) |-> PatternScript(tr[k].out)], << "\n\n" >>)
                          \o << "\necho \"::set-output name=changed::false\"\nexit 0" >> ],
              msg |-> <<>> ]

(***************************************************************************)
(* The registry of generated path-check ids (module-level state).          *)
(***************************************************************************)
GiveUpAt == 1000

PathsIdText(paths) ==
    << "paths_" >> \o Join([k \in 1..Len(paths) |-> Sanitize(paths[k])], << "_", "_" >>)

PathsIdKey(text, num) == IF num = 0 THEN text ELSE text \o << "-", ToString(num) >>

\* makePathsId that never returns a key already assigned, not even to the same
\* paths; C9 does not hold of it
RECURSIVE makePathsIdFresh(_, _, _)
makePathsIdFresh(reg, paths, num) ==
    LET key == PathsIdKey(PathsIdText(paths), num) IN
    IF num >= GiveUpAt THEN [key |-> <<>>, reg |-> reg, msg |-> << "This can't happen" >>]
    ELSE IF key \notin DOMAIN reg THEN [key |-> key, reg |-> reg @@ (key :> paths), msg |-> <<>>]
    ELSE makePathsIdFresh(reg, paths, num + 1)

\* makePathsId without the comparison with the list that holds the key: a name
\* already assigned is returned as it is; C27 does not hold of it
makePathsIdFirst(reg, paths, num) ==
    LET key == PathsIdKey(PathsIdText(paths), num) IN
    IF num >= GiveUpAt THEN [key |-> <<>>, reg |-> reg, msg |-> << "This can't happen" >>]
    ELSE IF key \notin DOMAIN reg THEN [key |-> key, reg |-> reg @@ (key :> paths), msg |-> <<>>]
    ELSE [key |-> key, reg |-> reg, msg |-> <<>>]

\* the loop of makePathsId from num on: [key, reg, msg]
RECURSIVE makePathsIdFrom(_, _, _)
makePathsIdFrom(reg, paths, num) ==
    LET key == PathsIdKey(PathsIdText(paths), num) IN
    IF num >= GiveUpAt THEN [key |-> <<>>, reg |-> reg, msg |-> << "This can't happen" >>]
    ELSE IF key \notin DOMAIN reg THEN [key |-> key, reg |-> reg @@ (key :> paths), msg |-> <<>>]
    ELSE IF reg[key] = paths THEN [key |-> key, reg |-> reg, msg |-> <<>>]
    ELSE makePathsIdFrom(reg, paths, num + 1)

makePathsId(reg, paths) == makePathsIdFrom(reg, paths, 0)

(***************************************************************************)
(* The node graph.  A node id is << kind, text >>: `step-<i>`,             *)
(* `setup-<name>`, `paths-<patterns joined by #>`.  A context is           *)
(* [nodes, err]: err is the message of the error thrown so far, and every  *)
(* operation on a context that has thrown leaves it as it is.              *)
(***************************************************************************)
StepKey(n) == << "step", << ToString(n) >> >>

SetupKey(setupId) == << "setup", << setupId >> >>

PathsKey(sorted) == << "paths", Join(sorted, << "#" >>) >>

\* the id as it is printed in an error message
KeyText(key) == << key[1], "-" >> \o key[2]

TypeErrorMsg == << "TypeError: Cannot read property of undefined" >>

RangeErrorMsg == << "RangeError: Maximum call stack size exceeded" >>

NoCheckoutMsg == << "You must have a \"checkout\" setup if you are using step- or job-level paths" >>

CycleMsgHead == "Cycle in setup dependencies: "

InvalidSetupMsg(setupId) == << "Invalid setupId: ", setupId >>

NodeIds(ns) == [k \in 1..Len(ns) |-> ns[k].id]

Has(ns, key) == \E k \in 1..Len(ns) : ns[k].id = key

NodeOf(ns, key) == ns[CHOOSE k \in 1..Len(ns) : ns[k].id = key]

Ok(ctx) == ctx.err = <<>>

Throw(ctx, msg) == [ctx EXCEPT !.err = msg]

NullDeps == [null |-> TRUE, keys |-> <<>>]

\* addEdge with the edge the other way round; C1 does not hold of it
addEdgeReversed(ctx, parentKey, childKey) ==
    IF ~Ok(ctx) THEN ctx
    ELSE IF ~Has(ctx.nodes, parentKey) \/ ~Has(ctx.nodes, childKey) THEN Throw(ctx, TypeErrorMsg)
    ELSE [ctx EXCEPT !.nodes =
            [k \in 1..Len(ctx.nodes) |->
                LET n  == ctx.nodes[k]
                    n1 == IF n.id = childKey THEN [n EXCEPT !.before = SetKey(n.before, parentKey)] ELSE n
                IN  IF n.id = parentKey THEN [n1 EXCEPT !.after = SetKey(n1.after, childKey)] ELSE n1]]

addEdge(ctx, parentKey, childKey) ==
    IF ~Ok(ctx) THEN ctx
    ELSE IF ~Has(ctx.nodes, parentKey) \/ ~Has(ctx.nodes, childKey) THEN Throw(ctx, TypeErrorMsg)
    ELSE [ctx EXCEPT !.nodes =
            [k \in 1..Len(ctx.nodes) |->
                LET n  == ctx.nodes[k]
                    n1 == IF n.id = parentKey THEN [n EXCEPT !.before = SetKey(n.before, childKey)] ELSE n
                IN  IF n.id = childKey THEN [n1 EXCEPT !.after = SetKey(n1.after, parentKey)] ELSE n1]]

RECURSIVE addEdges(_, _, _)
addEdges(ctx, parentKey, childKeys) ==
    IF childKeys = <<>> THEN ctx
    ELSE addEdges(addEdge(ctx, parentKey, childKeys[1]), parentKey, Tail(childKeys))

RECURSIVE Dedup(_)
Dedup(s) == IF s = <<>> THEN <<>> ELSE SetKey(Dedup(SubSeq(s, 1, Len(s) - 1)), s[Len(s)])

\* addNode without the trailing pathIds.forEach(addEdge); C28 does not hold of it
addNodeBare(ctx, id, contents, pathIds) ==
    IF ~Ok(ctx) \/ Has(ctx.nodes, id) THEN ctx
    ELSE
        LET pathDeps == IF Len(pathIds) > 0 THEN [null |-> FALSE, keys |-> Dedup(pathIds)] ELSE NullDeps
            node == [id |-> id, contents |-> contents, pathDeps |-> pathDeps, before |-> <<>>, after |-> <<>>]
        IN  [ctx EXCEPT !.nodes = Append(ctx.nodes, node)]

addNode(ctx, id, contents, pathIds) ==
    IF ~Ok(ctx) \/ Has(ctx.nodes, id) THEN ctx
    ELSE
        LET pathDeps == IF Len(pathIds) > 0 THEN [null |-> FALSE, keys |-> Dedup(pathIds)] ELSE NullDeps
            node == [id |-> id, contents |-> contents, pathDeps |-> pathDeps, before |-> <<>>, after |-> <<>>]
        IN  addEdges([ctx EXCEPT !.nodes = Append(ctx.nodes, node)], id, pathIds)

\* the array addPaths sorts: typeof paths === 'string' ? [paths] : paths.slice()
SortedPaths(paths) == SortStrings(IF paths.t = "string" THEN << paths.v >> ELSE paths.v)

addPaths(ctx, paths) ==
    addNode(ctx, PathsKey(SortedPaths(paths)), [type |-> "paths", paths |-> SortedPaths(paths)], <<>>)

\* propagatePaths without the branch that clears pathDeps on an unconditional
\* reference; C2 does not hold of it
propagateHereKeep(ctx, key, pathIds) ==
    IF ~Has(ctx.nodes, key) THEN Throw(ctx, TypeErrorMsg)
    ELSE IF Len(pathIds) = 0 \/ NodeOf(ctx.nodes, key).pathDeps.null THEN ctx
    ELSE
        addEdges(
            [ctx EXCEPT !.nodes = [k \in 1..Len(ctx.nodes) |->
                IF ctx.nodes[k].id = key
                THEN [ctx.nodes[k] EXCEPT !.pathDeps.keys = Dedup(@ \o pathIds)]
                ELSE ctx.nodes[k]]],
            key, pathIds)

\* propagatePaths assigning the new ids in place of the old ones; C19 does not hold of it
propagateHereReplace(ctx, key, pathIds) ==
    IF ~Has(ctx.nodes, key) THEN Throw(ctx, TypeErrorMsg)
    ELSE IF Len(pathIds) = 0 THEN
        [ctx EXCEPT !.nodes = [k \in 1..Len(ctx.nodes) |->
            IF ctx.nodes[k].id = key THEN [ctx.nodes[k] EXCEPT !.pathDeps = NullDeps] ELSE ctx.nodes[k]]]
    ELSE IF NodeOf(ctx.nodes, key).pathDeps.null THEN ctx
    ELSE
        addEdges(
            [ctx EXCEPT !.nodes = [k \in 1..Len(ctx.nodes) |->
                IF ctx.nodes[k].id = key
                THEN [ctx.nodes[k] EXCEPT !.pathDeps.keys = Dedup(pathIds)]
                ELSE ctx.nodes[k]]],
            key, pathIds)

\* the assignments of propagatePaths to the node itself (lines 277-288)
propagateHere(ctx, key, pathIds) ==
    IF ~Has(ctx.nodes, key) THEN Throw(ctx, TypeErrorMsg)
    ELSE IF Len(pathIds) = 0 THEN
        [ctx EXCEPT !.nodes = [k \in 1..Len(ctx.nodes) |->
            IF ctx.nodes[k].id = key THEN [ctx.nodes[k] EXCEPT !.pathDeps = NullDeps] ELSE ctx.nodes[k]]]
    ELSE IF NodeOf(ctx.nodes, key).pathDeps.null THEN ctx
    ELSE
        addEdges(
            [ctx EXCEPT !.nodes = [k \in 1..Len(ctx.nodes) |->
                IF ctx.nodes[k].id = key
                THEN [ctx.nodes[k] EXCEPT !.pathDeps.keys = Dedup(@ \o pathIds)]
                ELSE ctx.nodes[k]]],
            key, pathIds)

\* propagatePaths without the walk along `before`: the node itself is updated,
\* what it requires is not; C30 does not hold of it
propagatePathsShallow(ctx, key, pathIds, depth) ==
    IF ~Ok(ctx) THEN ctx
    ELSE IF depth > MaxDepth THEN Throw(ctx, RangeErrorMsg)
    ELSE propagateHere(ctx, key, pathIds)

\* depth counts the frames of propagatePaths on the call stack
RECURSIVE propagatePaths(_, _, _, _)
RECURSIVE propagateEach(_, _, _, _)
propagatePaths(ctx, key, pathIds, depth) ==
    IF ~Ok(ctx) THEN ctx
    ELSE IF depth > MaxDepth THEN Throw(ctx, RangeErrorMsg)
    ELSE
        LET here == propagateHere(ctx, key, pathIds)
        IN  IF ~Ok(here) THEN here
            ELSE propagateEach(here, NodeOf(here.nodes, key).before, pathIds, depth + 1)

propagateEach(ctx, keys, pathIds, depth) ==
    IF keys = <<>> THEN ctx
    ELSE propagateEach(propagatePaths(ctx, keys[1], pathIds, depth), Tail(keys), pathIds, depth)

RECURSIVE addSetup(_, _, _, _)
RECURSIVE processSetupList(_, _, _, _, _)
\* addSetup without the special case of checkout; C12 does not hold of it
addSetupAnyPaths(ctx, table, setupId, pathIds) ==
    LET key == SetupKey(setupId)
    IN  IF ~Ok(ctx) THEN ctx
        ELSE IF Has(ctx.nodes, key) THEN propagatePaths(ctx, key, pathIds, 1)
        ELSE
            LET added == addNode(ctx, key, [type |-> "setup", name |-> setupId], pathIds)
            IN  IF setupId \notin DOMAIN table THEN Throw(added, InvalidSetupMsg(setupId))
                ELSE IF table[setupId].isArray THEN added
                ELSE processSetupList(added, table, key, setupList(table[setupId].setup), pathIds)

addSetup(ctx, table, setupId, pathIds0) ==
    LET key == SetupKey(setupId)
        pathIds == IF key = SetupKey("checkout") THEN <<>> ELSE pathIds0
    IN  IF ~Ok(ctx) THEN ctx
        ELSE IF Has(ctx.nodes, key) THEN propagatePaths(ctx, key, pathIds, 1)
        ELSE
            LET added == addNode(ctx, key, [type |-> "setup", name |-> setupId], pathIds)
            IN  IF setupId \notin DOMAIN table THEN Throw(added, InvalidSetupMsg(setupId))
                ELSE IF table[setupId].isArray THEN added
                ELSE processSetupList(added, table, key, setupList(table[setupId].setup), pathIds)

processSetupList(ctx, table, parentKey, ids, pathIds) ==
    IF ids = <<>> \/ ~Ok(ctx) THEN ctx
    ELSE processSetupList(
            addEdge(addSetup(ctx, table, ids[1], pathIds), parentKey, SetupKey(ids[1])),
            table, parentKey, Tail(ids), pathIds)

processSetup(ctx, table, parentKey, setup, pathIds) ==
    processSetupList(ctx, table, parentKey, setupList(setup), pathIds)

(***************************************************************************)
(* kahnsAlgorithm.                                                         *)
(***************************************************************************)
DropEdge(ns, nodeId, afterId) ==
    [k \in 1..Len(ns) |->
        LET n  == ns[k]
            n1 == IF n.id = nodeId THEN [n EXCEPT !.after = DelKey(n.after, afterId)] ELSE n
        IN  IF n.id = afterId THEN [n1 EXCEPT !.before = DelKey(n1.before, nodeId)] ELSE n1]

\* the loop of lines 99-105 without the test of line 102: every successor is
\* pushed as soon as one of its edges is deleted; C20 does not hold of it
RECURSIVE KahnReleaseEarly(_, _, _)
KahnReleaseEarly(st, nodeId, afterIds) ==
    IF afterIds = <<>> THEN st
    ELSE
        LET ns == DropEdge(st.nodes, nodeId, afterIds[1])
        IN  KahnReleaseEarly([nodes |-> ns, S |-> Append(st.S, afterIds[1])], nodeId, Tail(afterIds))

\* lines 99-105: the loop over Object.keys(nodes[nodeId].after); st is [nodes, S]
RECURSIVE KahnRelease(_, _, _)
KahnRelease(st, nodeId, afterIds) ==
    IF afterIds = <<>> THEN st
    ELSE
        LET ns == DropEdge(st.nodes, nodeId, afterIds[1])
            S  == IF NodeOf(ns, afterIds[1]).before = <<>> THEN Append(st.S, afterIds[1]) ELSE st.S
        IN  KahnRelease([nodes |-> ns, S |-> S], nodeId, Tail(afterIds))

\* the loop of lines 96-106 taking the node that was pushed last; C21 does not hold of it
RECURSIVE KahnLoopLifo(_, _, _)
KahnLoopLifo(ns, S, L) ==
    IF S = <<>> THEN [nodes |-> ns, L |-> L]
    ELSE
        LET n  == S[Len(S)]
            st == KahnRelease([nodes |-> ns, S |-> SubSeq(S, 1, Len(S) - 1)], n, NodeOf(ns, n).after)
        IN  KahnLoopLifo(st.nodes, st.S, Append(L, n))

\* lines 96-106: while (S.length); the result is [nodes, L]
RECURSIVE KahnLoop(_, _, _)
KahnLoop(ns, S, L) ==
    IF S = <<>> THEN [nodes |-> ns, L |-> L]
    ELSE
        LET st == KahnRelease([nodes |-> ns, S |-> Tail(S)], Head(S), NodeOf(ns, Head(S)).after)
        IN  KahnLoop(st.nodes, st.S, Append(L, Head(S)))

\* lines 107-113: the pairs << nodeId, id >> still in the after maps
EdgesLeft(ns) ==
    Flatten([k \in 1..Len(ns) |-> [j \in 1..Len(ns[k].after) |-> << ns[k].id, ns[k].after[j] >>]])

CycleMsg(edges) ==
    << CycleMsgHead >>
    \o Join([k \in 1..Len(edges) |-> KeyText(edges[k][1]) \o << ":" >> \o KeyText(edges[k][2])], << ", " >>)

\* kahnsAlgorithm(nodes): [L, nodes, msg]
kahnsAlgorithm(ns) ==
    LET S0   == SelectSeq(NodeIds(ns), LAMBDA id : NodeOf(ns, id).before = <<>>)
        done == KahnLoop(ns, S0, <<>>)
        left == EdgesLeft(done.nodes)
    IN  [ L |-> done.L, nodes |-> done.nodes,
          msg |-> IF left # <<>> THEN CycleMsg(left) ELSE <<>> ]

(***************************************************************************)
(* Emission of the compiled list.                                          *)
(***************************************************************************)
andIfs(one, two) == << "(" >> \o one \o << ") && (" >> \o two \o << ")" >>

\* maybeAddIf that overwrites the `if` a step has; C7 does not hold of it
maybeAddIfReplace(iff, step) ==
    IF iff = <<>> THEN step ELSE [step EXCEPT !.if = iff, !.ref = <<>>]

\* a copy that maybeAddIf or a spread makes is an object of its own
maybeAddIf(iff, step) ==
    IF iff = <<>> THEN step
    ELSE [step EXCEPT !.if = IF step.if # <<>> THEN andIfs(iff, step.if) ELSE iff, !.ref = <<>>]

\* ids[paths] of compileIf; a key that is not in the map reads as undefined
GeneratedId(ids, pathsKey) == IF pathsKey \in DOMAIN ids THEN ids[pathsKey] ELSE << "undefined" >>

ChangedTest(id) == << "steps." >> \o id \o << ".outputs.changed == 'true'" >>

\* compileIf that tests the first path-check only; C3 does not hold of it
compileIfFirst(deps, ids) ==
    IF deps.null THEN <<>>
    ELSE ChangedTest(GeneratedId(ids, deps.keys[1]))

compileIf(deps, ids) ==
    IF deps.null THEN <<>>
    ELSE Join([k \in 1..Len(deps.keys) |-> ChangedTest(GeneratedId(ids, deps.keys[k]))], << " || " >>)

StartMarker(name) ==
    [BlankStep EXCEPT !.name = << "Start setup [", name, "]" >>, !.run = << "echo \"Setting something up\"" >>]

EndMarker(name) ==
    [BlankStep EXCEPT !.name = << "Finished setup [", name, "]" >>, !.run = << "echo \"Finished setting it up\"" >>]

\* an entry of the compiled list that is a step object of the Setup table itself
RefEntry(name, k) == [BlankStep EXCEPT !.ref = << name, k >>]

\* the object an entry of a compiled list stands for
Deref(entry, table) == IF entry.ref = <<>> THEN entry ELSE table[entry.ref[1]].steps[entry.ref[2]]

\* the block of a setup with the end marker pushed as it is; C23 does not hold of it
SetupBlockBareEnd(table, name, pathsIf) ==
    LET entry == table[name]
        itemSteps == entry.steps
        inBlock(k) ==
            LET r == maybeAddIf(pathsIf, [itemSteps[k] EXCEPT !.ref = << name, k >>])
            IN  IF r.ref # <<>> THEN RefEntry(name, k) ELSE r
    IN  IF ~entry.isArray /\ ~entry.hasSteps THEN <<>>
        ELSE IF Len(itemSteps) = 1 THEN
            << maybeAddIf(pathsIf, [itemSteps[1] EXCEPT
                    !.name = << "Setup ", name, ": " >> \o itemSteps[1].name, !.ref = <<>>]) >>
        ELSE
            << maybeAddIf(pathsIf, StartMarker(name)) >>
            \o [k \in 1..Len(itemSteps) |-> inBlock(k)]
            \o << EndMarker(name) >>

\* lines 431-463: the steps pushed for a setup node.  The generated names are
\* written without their leading emoji.
SetupBlock(table, name, pathsIf) ==
    LET entry == table[name]
        itemSteps == entry.steps
        inBlock(k) ==
            LET r == maybeAddIf(pathsIf, [itemSteps[k] EXCEPT !.ref = << name, k >>])
            IN  IF r.ref # <<>> THEN RefEntry(name, k) ELSE r
    IN  IF ~entry.isArray /\ ~entry.hasSteps THEN <<>>
        ELSE IF Len(itemSteps) = 1 THEN
            << maybeAddIf(pathsIf, [itemSteps[1] EXCEPT
                    !.name = << "Setup ", name, ": " >> \o itemSteps[1].name, !.ref = <<>>]) >>
        ELSE
            << maybeAddIf(pathsIf, StartMarker(name)) >>
            \o [k \in 1..Len(itemSteps) |-> inBlock(k)]
            \o << maybeAddIf(pathsIf, EndMarker(name)) >>

\* one iteration of ordering.forEach (lines 424-467); acc is
\* [steps, origin, pathsMap, reg, err]
EmitNode(acc, ns, table, jobSteps, id) ==
    LET node    == NodeOf(ns, id)
        item    == node.contents
        pathsIf == compileIf(node.pathDeps, acc.pathsMap)
        push(new) == [acc EXCEPT !.steps = @ \o new,
                                 !.origin = @ \o [k \in 1..Len(new) |-> id]]
    IN  IF acc.err # <<>> THEN acc
        ELSE IF item.type = "paths" THEN
            LET made == makePathsId(acc.reg, item.paths)
                comp == compilePaths(made.key, item.paths)
            IN  IF made.msg # <<>> THEN [acc EXCEPT !.err = made.msg]
                ELSE IF ~comp.ok THEN [acc EXCEPT !.reg = made.reg, !.err = comp.msg]
                ELSE [acc EXCEPT !.steps = Append(@, comp.step), !.origin = Append(@, id),
                                 !.reg = made.reg, !.pathsMap = @ @@ (id :> made.key)]
        ELSE IF item.type = "setup" THEN push(SetupBlock(table, item.name, pathsIf))
        ELSE push(<< maybeAddIf(pathsIf, jobSteps[item.step]) >>)

RECURSIVE EmitAll(_, _, _, _, _)
EmitAll(acc, ns, table, jobSteps, ids) ==
    IF ids = <<>> THEN acc
    ELSE EmitAll(EmitNode(acc, ns, table, jobSteps, ids[1]), ns, table, jobSteps, Tail(ids))

(***************************************************************************)
(* processBailUnless.  st is [steps, table]: a step of the list that is a  *)
(* step object of the Setup table is changed in the table.                 *)
(***************************************************************************)
OutputsDot == << "o", "u", "t", "p", "u", "t", "s", "." >>

\* the replace without the look-behind: every `outputs.` is rewritten; C8 does
\* not hold of it
RECURSIVE ReplaceEvery(_, _, _)
ReplaceEvery(s, prev, id) ==
    IF s = <<>> THEN <<>>
    ELSE IF Len(s) >= 8 /\ SubSeq(s, 1, 8) = OutputsDot THEN
        << "steps." >> \o id \o << ".outputs." >> \o ReplaceEvery(SubSeq(s, 9, Len(s)), ".", id)
    ELSE << s[1] >> \o ReplaceEvery(Tail(s), s[1], id)

\* bail_if.replace(/(?<!\.)outputs\./g, `steps.${id}.outputs.`); prev is the
\* character before s in the string scanned
RECURSIVE ReplaceOutputs(_, _, _)
ReplaceOutputs(s, prev, id) ==
    IF s = <<>> THEN <<>>
    ELSE IF Len(s) >= 8 /\ SubSeq(s, 1, 8) = OutputsDot /\ prev # "." THEN
        << "steps." >> \o id \o << ".outputs." >> \o ReplaceOutputs(SubSeq(s, 9, Len(s)), ".", id)
    ELSE << s[1] >> \o ReplaceOutputs(Tail(s), s[1], id)

BailCond(bail_if, id) == << "!(" >> \o ReplaceOutputs(bail_if, "", id) \o << ")" >>

SetObj(st, k, obj) ==
    IF st.steps[k].ref = <<>> THEN [st EXCEPT !.steps[k] = obj]
    ELSE [st EXCEPT !.table[st.steps[k].ref[1]].steps[st.steps[k].ref[2]] = obj]

RECURSIVE GateOnward(_, _, _)
GateOnward(st, from, cond) ==
    IF from > Len(st.steps) THEN st
    ELSE
        LET step == Deref(st.steps[from], st.table)
        IN  GateOnward([st EXCEPT !.steps[from] =
                            [step EXCEPT !.if = IF step.if # <<>> THEN andIfs(cond, step.if) ELSE cond]],
                       from + 1, cond)

\* the loop over steps.slice(...) starting at the bail step itself; C25 does not hold of it
GateFromBail(st, from, cond) == GateOnward(st, from - 1, cond)

\* steps.slice(from).forEach((step) => { step.if = step.if ? andIfs(cond, step.if) : cond })
RECURSIVE GateFrom(_, _, _)
GateFrom(st, from, cond) ==
    IF from > Len(st.steps) THEN st
    ELSE
        LET step == Deref(st.steps[from], st.table)
        IN  GateFrom(SetObj(st, from, [step EXCEPT !.if = IF step.if # <<>> THEN andIfs(cond, step.if) ELSE cond]),
                     from + 1, cond)

\* the body of bails.forEach for the bail at position k, the rank-th of bails
BailOne(st, k, rank) ==
    LET bail == Deref(st.steps[k], st.table)
        id   == IF bail.id = <<>> THEN << "bail_if_", ToString(rank) >> ELSE bail.id
    IN  IF bail.bail_if = <<>> THEN SetObj(st, k, [bail EXCEPT !.id = id])
        ELSE GateFrom(SetObj(st, k, [bail EXCEPT !.id = id, !.bail_if = <<>>]),
                      k + 1, BailCond(bail.bail_if, id))

\* bails.forEach that stops after the first bail step; C24 does not hold of it
BailEachOnce(st, bails, rank) ==
    IF bails = <<>> THEN st
    ELSE BailOne(st, bails[1], rank)

RECURSIVE BailEach(_, _, _)
BailEach(st, bails, rank) ==
    IF bails = <<>> THEN st
    ELSE BailEach(BailOne(st, bails[1], rank), Tail(bails), rank + 1)

\* steps.filter((step) => !!step.bail_if), as positions in steps
Bails(list, table) ==
    SelectSeq([k \in 1..Len(list) |-> k], LAMBDA k : Deref(list[k], table).bail_if # <<>>)

processBailUnless(list, table) ==
    BailEach([steps |-> list, table |-> table], Bails(list, table), 1)


(***************************************************************************)
(* Inputs: the Setup tables and the jobs the model compiles.               *)
(***************************************************************************)
PJs == << "*", ".", "j", "s" >>

PJava == << "*", ".", "j", "a", "v", "a" >>

\* a different pattern whose sanitized name is that of PJs
PJsDeep == << "*", "*", ".", "j", "s" >>

Run(text) == [BlankStep EXCEPT !.run = << text >>]

ArrayEntry(list) == [isArray |-> TRUE, setup |-> NoList, hasSteps |-> TRUE, steps |-> list]

RecordEntry(setup, list) == [isArray |-> FALSE, setup |-> setup, hasSteps |-> TRUE, steps |-> list]

NoStepsEntry(setup) == [isArray |-> FALSE, setup |-> setup, hasSteps |-> FALSE, steps |-> <<>>]

\* the table of the test fixture 'Multiple dependencies with different paths'
TableFixture ==
    [ checkout |-> ArrayEntry(<< Run("echo checkout") >>),
      one      |-> ArrayEntry(<< Run("echo one") >>),
      two      |-> RecordEntry(OneString("one"), << Run("echo two") >>) ]

\* one requires two and two requires one
TableCycle ==
    [ checkout |-> ArrayEntry(<< Run("echo checkout") >>),
      one      |-> RecordEntry(OneString("two"), << Run("echo one") >>),
      two      |-> RecordEntry(Array(<< "one" >>), << Run("echo two") >>) ]

\* a setup of several steps, one of them with an `if` of its own, and setups without steps
TableMulti ==
    [ checkout |-> RecordEntry(NoList, << Run("echo checkout") >>),
      one      |-> ArrayEntry(<< [Run("echo one a") EXCEPT !.name = << "one a" >>],
                                 [Run("echo one b") EXCEPT !.if = << "always()" >>] >>),
      two      |-> RecordEntry(Array(<< "one" >>), <<>>) ]

\* checkout itself requires a setup; two is not defined
TableCheckoutNeeds ==
    [ checkout |-> RecordEntry(OneString("one"), << Run("echo checkout") >>),
      one      |-> ArrayEntry(<< Run("echo one") >>) ]

\* no checkout setup at all
TableNoCheckout ==
    [ one |-> ArrayEntry(<< Run("echo one") >>),
      two |-> NoStepsEntry(Array(<< "one" >>)) ]

Tables == { TableFixture, TableCycle, TableMulti, TableCheckoutNeeds, TableNoCheckout }

BailOk == << "o", "u", "t", "p", "u", "t", "s", ".", "ok != 'true'" >>

\* `outputs.` after a dot is left alone, the second one is rewritten
BailDotted == << "s", ".", "o", "u", "t", "p", "u", "t", "s", ".", "a", " || ",
                 "o", "u", "t", "p", "u", "t", "s", ".", "v" >>

StepOpts ==
    { BlankStep,
      [BlankStep EXCEPT !.if = << "github.event_name == 'push'" >>, !.local = TRUE,
                        !.local_env_flag = << "LOCAL" >>],
      [BlankStep EXCEPT !.paths = OneString(PJs), !.setup = OneString("checkout")],
      [BlankStep EXCEPT !.paths = OneString(PJs), !.setup = Array(<< "two" >>)],
      [BlankStep EXCEPT !.paths = Array(<< PJs, PJava >>), !.setup = OneString("two")],
      [BlankStep EXCEPT !.setup = OneString("two")],
      [BlankStep EXCEPT !.paths = Array(<< PJava >>), !.setup = OneString("one"),
                        !.if = << "success()" >>],
      [BlankStep EXCEPT !.setup = Array(<< "one", "checkout" >>)],
      [BlankStep EXCEPT !.bail_if = BailOk],
      [BlankStep EXCEPT !.bail_if = BailDotted, !.id = << "s" >>, !.if = << "failure()" >>],
      [BlankStep EXCEPT !.paths = Array(<< PJsDeep >>)] }

JobSetups == { NoList, OneString("checkout"), Array(<< "two", "checkout" >>) }

\* the steps of a job: options, named by their position
NamedSteps(opts) == [k \in 1..Len(opts) |-> [opts[k] EXCEPT !.name = << "step ", ToString(k) >>]]

StepLists(n) == { NamedSteps(opts) : opts \in [1..n -> StepOpts] }

Jobs == { [setup |-> js, steps |-> list] : js \in JobSetups, list \in UNION { StepLists(n) : n \in 0..MaxSteps } }

(***************************************************************************)
(* compileSteps(job, setupSteps), one action per phase of the function.    *)
(* A throw ends the call: pc becomes "thrown" and error holds the message. *)
(***************************************************************************)
job == jobs[cur]

Ctx == [nodes |-> nodes, err |-> <<>>]

\* the deletes without those of local and local_env_flag; C6 does not hold of it
StrippedKeepLocal(step) == [step EXCEPT !.setup = NoList, !.paths = NoList]

\* the fields compileSteps deletes from a step once it has consumed it (lines 398-401)
Stripped(step) == [step EXCEPT !.setup = NoList, !.paths = NoList, !.local = FALSE, !.local_env_flag = <<>>]

\* the pathIds of a step (line 395)
StepPathIds(step) == IF step.paths.t # "none" THEN << PathsKey(SortedPaths(step.paths)) >> ELSE <<>>

\* the body of job.steps.forEach for index n (lines 393-405), on a context
StepGraph(ctx, table, step, n) ==
    LET c1 == IF step.paths.t # "none" THEN addPaths(ctx, step.paths) ELSE ctx
        c2 == addNode(c1, StepKey(n), [type |-> "step", step |-> n + 1], StepPathIds(step))
        c3 == processSetup(c2, table, StepKey(n), step.setup, StepPathIds(step))
    IN  IF n > 0 THEN addEdge(c3, StepKey(n), StepKey(n - 1)) ELSE c3

\* lines 409-418
RECURSIVE CheckoutEdges(_, _)
CheckoutEdges(ctx, ids) ==
    IF ids = <<>> \/ ~Ok(ctx) THEN ctx
    ELSE IF NodeOf(ctx.nodes, ids[1]).contents.type # "paths" THEN CheckoutEdges(ctx, Tail(ids))
    ELSE IF ~Has(ctx.nodes, SetupKey("checkout")) THEN Throw(ctx, NoCheckoutMsg)
    ELSE CheckoutEdges(addEdge(ctx, ids[1], SetupKey("checkout")), Tail(ids))

AfterSteps(n) == IF n >= Len(job.steps) THEN "jobsetup" ELSE "steps"

StepIteration ==
    /\ pc = "steps"
    /\ i < Len(job.steps)
    /\ LET c == StepGraph(Ctx, setupSteps, job.steps[i + 1], i)
       IN  /\ nodes' = c.nodes
           /\ IF Ok(c)
              THEN /\ jobs' = [jobs EXCEPT ![cur].steps[i + 1] = Stripped(@)]
                   /\ i' = i + 1
                   /\ pc' = AfterSteps(i + 1)
                   /\ error' = error
              ELSE /\ pc' = "thrown"
                   /\ error' = c.err
                   /\ UNCHANGED << jobs, i >>
    /\ UNCHANGED << setupSteps, cur, ordering, steps, origin, assignedPathIds, written, source, log >>
    /\ UNCHANGED runnerVars

\* lines 406-407
JobSetup ==
    /\ pc = "jobsetup"
    /\ LET c == processSetup(Ctx, setupSteps, StepKey(0), job.setup, <<>>)
       IN  /\ nodes' = c.nodes
           /\ IF Ok(c)
              THEN /\ jobs' = [jobs EXCEPT ![cur].setup = NoList]
                   /\ pc' = "checkout"
                   /\ error' = error
              ELSE /\ pc' = "thrown"
                   /\ error' = c.err
                   /\ jobs' = jobs
    /\ UNCHANGED << setupSteps, cur, i, ordering, steps, origin, assignedPathIds, written, source, log >>
    /\ UNCHANGED runnerVars

PathsNeedCheckout ==
    /\ pc = "checkout"
    /\ LET c == CheckoutEdges(Ctx, NodeIds(nodes))
       IN  /\ nodes' = c.nodes
           /\ pc' = IF Ok(c) THEN "kahn" ELSE "thrown"
           /\ error' = c.err
    /\ UNCHANGED << setupSteps, jobs, cur, i, ordering, steps, origin, assignedPathIds, written, source, log >>
    /\ UNCHANGED runnerVars

\* line 420
Linearize ==
    /\ pc = "kahn"
    /\ LET r == kahnsAlgorithm(nodes)
       IN  /\ nodes' = r.nodes
           /\ IF r.msg = <<>>
              THEN ordering' = r.L /\ pc' = "emit" /\ error' = error
              ELSE ordering' = ordering /\ pc' = "thrown" /\ error' = r.msg
    /\ UNCHANGED << setupSteps, jobs, cur, i, steps, origin, assignedPathIds, written, source, log >>
    /\ UNCHANGED runnerVars

EmitStart == [steps |-> <<>>, origin |-> <<>>, pathsMap |-> <<>>, reg |-> assignedPathIds, err |-> <<>>]

\* the list the emission loop builds from the current state
Emitted == EmitAll(EmitStart, nodes, setupSteps, job.steps, ordering)

\* lines 421-467
Emit ==
    /\ pc = "emit"
    /\ LET acc == Emitted
       IN  /\ assignedPathIds' = acc.reg
           /\ IF acc.err = <<>>
              THEN steps' = acc.steps /\ origin' = acc.origin /\ pc' = "bail" /\ error' = error
              ELSE steps' = steps /\ origin' = origin /\ pc' = "thrown" /\ error' = acc.err
    /\ UNCHANGED << setupSteps, jobs, cur, i, nodes, ordering, written, source, log >>
    /\ UNCHANGED runnerVars

\* lines 469-471
BailAndAssign ==
    /\ pc = "bail"
    /\ LET st == processBailUnless(steps, setupSteps)
       IN  /\ steps' = st.steps
           /\ setupSteps' = st.table
           /\ jobs' = [jobs EXCEPT ![cur].steps = st.steps]
    /\ pc' = "compiled"
    /\ UNCHANGED << cur, i, nodes, ordering, origin, assignedPathIds, error, written, source, log >>
    /\ UNCHANGED runnerVars

\* the local runner is not part of a run of the compiler
RunnerIdle ==
    /\ args = [named |-> FALSE, all |-> FALSE]
    /\ matched = <<>>
    /\ allJobs = <<>>
    /\ rpc = "idle"
    /\ rj = 0
    /\ rs = 0
    /\ errors = 0
    /\ started = <<>>
    /\ exitCode = <<>>

StartPc(j) == IF Len(j.steps) = 0 THEN "jobsetup" ELSE "steps"

\* one call of compileSteps on a job and a Setup table, in a new process
Init ==
    /\ setupSteps \in Tables
    /\ \E j \in Jobs : jobs = << j >> /\ pc = StartPc(j)
    /\ cur = 1
    /\ i = 0
    /\ nodes = <<>>
    /\ ordering = <<>>
    /\ steps = <<>>
    /\ origin = <<>>
    /\ assignedPathIds = <<>>
    /\ error = <<>>
    /\ written = FALSE
    /\ source = [table |-> setupSteps, jobs |-> jobs, input |-> setupSteps, proc |-> 1, file |-> 1]
    /\ log = <<>>
    /\ RunnerIdle

Next ==
    \/ StepIteration
    \/ JobSetup
    \/ PathsNeedCheckout
    \/ Linearize
    \/ Emit
    \/ BailAndAssign

Spec == Init /\ [][Next]_vars

(***************************************************************************)
(* processFile and the loop of bin/make-workflows.js over the files of a   *)
(* repository: the jobs of a file are compiled one after the other against *)
(* the one Setup table object of the file, the file is written, and the    *)
(* next file is processed in the same process, where assignedPathIds       *)
(* lives on, or by a new run of the program.  The files share the text of  *)
(* their Setup table (the `include` of a common file).                     *)
(***************************************************************************)
JDeep == [setup |-> OneString("checkout"),
          steps |-> NamedSteps(<< [BlankStep EXCEPT !.paths = Array(<< PJsDeep >>)] >>)]

JBailPaths == [setup |-> NoList,
               steps |-> NamedSteps(<< [BlankStep EXCEPT !.bail_if = BailOk],
                                       [BlankStep EXCEPT !.paths = OneString(PJs), !.setup = OneString("checkout")] >>)]

JBail == [setup |-> NoList,
          steps |-> NamedSteps(<< [BlankStep EXCEPT !.bail_if = BailOk],
                                  [BlankStep EXCEPT !.setup = Array(<< "one", "checkout" >>)] >>)]

\* a step with paths in a job that names no setup
JNoCheckout == [setup |-> NoList,
                steps |-> NamedSteps(<< [BlankStep EXCEPT !.paths = Array(<< PJsDeep >>)] >>)]

\* a pattern compilePaths does not support
JBadGlob == [setup |-> NoList,
             steps |-> NamedSteps(<< [BlankStep EXCEPT !.paths = OneString(<< "*", "*", "*" >>),
                                                       !.setup = OneString("checkout")] >>)]

ProcJobs == { JDeep, JBailPaths, JBail, JNoCheckout, JBadGlob }

ProcTables == { TableFixture, TableMulti, TableNoCheckout, TableCycle }

\* data.jobs of a file, in key order
JobLists == UNION { [1..n -> ProcJobs] : n \in 1..MaxJobs }

\* history: the call of compileSteps that has just ended
Compilation ==
    [ job   |-> source.jobs[cur],
      table |-> source.table,
      input |-> source.input,
      proc  |-> source.proc,
      file  |-> source.file,
      out   |-> IF pc = "compiled"
                THEN [k \in 1..Len(job.steps) |-> Deref(job.steps[k], setupSteps)]
                ELSE <<>>,
      err   |-> error ]

\* the for loop of processFile moves on to the next job (lines 504-508)
NextJob ==
    /\ pc = "compiled"
    /\ ~written
    /\ cur < Len(jobs)
    /\ cur' = cur + 1
    /\ pc' = StartPc(jobs[cur + 1])
    /\ i' = 0
    /\ nodes' = <<>>
    /\ ordering' = <<>>
    /\ steps' = <<>>
    /\ origin' = <<>>
    /\ source' = [source EXCEPT !.input = setupSteps]
    /\ log' = Append(log, Compilation)
    /\ UNCHANGED << setupSteps, jobs, assignedPathIds, error, written >>
    /\ UNCHANGED runnerVars

\* the file written as soon as one job has compiled; C15 does not hold of it
WriteFileEarly ==
    /\ pc = "compiled"
    /\ ~written
    /\ written' = TRUE
    /\ log' = Append(log, Compilation)
    /\ UNCHANGED << setupSteps, jobs, cur, pc, i, nodes, ordering, steps, origin,
                    assignedPathIds, error, source >>
    /\ UNCHANGED runnerVars

\* lines 509-518
WriteFile ==
    /\ pc = "compiled"
    /\ ~written
    /\ cur = Len(jobs)
    /\ written' = TRUE
    /\ log' = Append(log, Compilation)
    /\ UNCHANGED << setupSteps, jobs, cur, pc, i, nodes, ordering, steps, origin,
                    assignedPathIds, error, source >>
    /\ UNCHANGED runnerVars

\* processFile is called on a file of one job and the same Setup text
OpenFile(newProcess) ==
    /\ source.file < MaxFiles
    /\ \E j \in ProcJobs :
        /\ jobs' = << j >>
        /\ pc' = StartPc(j)
        /\ source' = [table |-> source.table, jobs |-> << j >>, input |-> source.table,
                      proc |-> IF newProcess THEN source.proc + 1 ELSE source.proc,
                      file |-> source.file + 1]
    /\ setupSteps' = source.table
    /\ cur' = 1
    /\ i' = 0
    /\ nodes' = <<>>
    /\ ordering' = <<>>
    /\ steps' = <<>>
    /\ origin' = <<>>
    /\ error' = <<>>
    /\ written' = FALSE
    /\ assignedPathIds' = IF newProcess THEN <<>> ELSE assignedPathIds
    /\ log' = IF written THEN log ELSE Append(log, Compilation)
    /\ UNCHANGED runnerVars

\* the forEach of bin/make-workflows.js goes on to the next file
NextFile ==
    /\ written
    /\ OpenFile(FALSE)

\* the program is run again, after it wrote its files or died of an error thrown
Restart ==
    /\ written \/ pc = "thrown"
    /\ OpenFile(TRUE)

InitProc ==
    /\ setupSteps \in ProcTables
    /\ jobs \in JobLists
    /\ pc = StartPc(jobs[1])
    /\ cur = 1
    /\ i = 0
    /\ nodes = <<>>
    /\ ordering = <<>>
    /\ steps = <<>>
    /\ origin = <<>>
    /\ assignedPathIds = <<>>
    /\ error = <<>>
    /\ written = FALSE
    /\ source = [table |-> setupSteps, jobs |-> jobs, input |-> setupSteps, proc |-> 1, file |-> 1]
    /\ log = <<>>
    /\ RunnerIdle

NextProc ==
    \/ StepIteration
    \/ JobSetup
    \/ PathsNeedCheckout
    \/ Linearize
    \/ Emit
    \/ BailAndAssign
    \/ NextJob
    \/ WriteFile
    \/ NextFile
    \/ Restart

SpecProc == InitProc /\ [][NextProc]_vars

(***************************************************************************)
(* The local runner (bin/run.js): run dispatches on the command line to    *)
(* runJobs or runSteps, which call runStep on one step after another and   *)
(* add up an error tally; the exit code is taken from the tally.  A step   *)
(* that is run spawns a child process, whose exit code and output are      *)
(* inputs of the run.                                                      *)
(***************************************************************************)
\* what runStep returns for a step it does not run
NoResult == <<>>

\* exit codes of a child process, and the lines of its output that begin with :error:
ExitCodes == { 0, 1 }
Marks == { 0, 2 }

\* the value runProcess resolves to on `close`
runProcess(code, marks) == [errors |-> marks, failed |-> code # 0]

Children == { [code |-> c, marks |-> m] : c \in ExitCodes, m \in Marks }

\* steps as runStep sees them
Shell == [local |-> TRUE, pathsMatch |-> TRUE, run |-> TRUE]
NotLocal == [local |-> FALSE, pathsMatch |-> TRUE, run |-> TRUE]
Unmatched == [local |-> TRUE, pathsMatch |-> FALSE, run |-> TRUE]
RunStepOpts == { Shell, NotLocal, Unmatched }

\* the steps of the jobs that are run by type
JobStepOpts == { Shell, NotLocal }

\* a step of a job before runStep has been called on it: its fields are
\* read by runStep, and are drawn when they are read
Unread == << >>

\* the step is run: none of the early returns of runStep is taken
Spawns(step) == step.local /\ step.pathsMatch /\ step.run

runStep(step, child) ==
    IF ~step.local THEN NoResult
    ELSE IF ~step.pathsMatch THEN NoResult
    ELSE IF step.run THEN runProcess(child.code, child.marks)
    ELSE NoResult

\* the body of the inner loop of runJobs without the break; C17 does not hold of it
runJobsStepNoBreak(tally, result, s, n) ==
    IF result = NoResult THEN [errors |-> tally, rs |-> s + 1]
    ELSE IF result.failed THEN [errors |-> tally + 1, rs |-> s + 1]
    ELSE [errors |-> tally + result.errors, rs |-> s + 1]

\* the body of the inner loop of runJobs on the result of step s of n: the
\* tally and the index of the next step of the job, n + 1 when the loop is left
runJobsStep(tally, result, s, n) ==
    IF result = NoResult THEN [errors |-> tally, rs |-> s + 1]
    ELSE IF result.failed THEN [errors |-> tally + 1, rs |-> n + 1]
    ELSE [errors |-> tally + result.errors, rs |-> s + 1]

\* what runSteps adds to the tally for the result of one step
runStepsErrors(result) == IF result = NoResult THEN 0 ELSE result.errors

\* steps.sort((a, b) => a.sort - b.sort) followed by steps[0]: the index of the
\* first step of lowest sort key
Best(list) ==
    CHOOSE k \in 1..Len(list) :
        /\ \A m \in 1..Len(list) : list[k].sort <= list[m].sort
        /\ \A m \in 1..(k - 1) : list[m].sort > list[k].sort

Spawned(j, s, result) == [job |-> j, step |-> s, result |-> result]

Record(j, s, result) ==
    IF result = NoResult THEN started ELSE Append(started, Spawned(j, s, result))

\* the end of run: process.exit(1) unless the tally is 0
ExitCode(tally) == IF tally = 0 THEN 0 ELSE 1

\* run: the branch on the command line; a name that matches neither a step
\* nor a job counts as one error
RunStart ==
    /\ rpc = "run"
    /\ IF ~args.named \/ (matched = <<>> /\ allJobs # <<>>)
       THEN rpc' = "jobs" /\ rj' = 1 /\ rs' = 1 /\ errors' = errors /\ exitCode' = exitCode
       ELSE IF matched # <<>>
       THEN /\ rpc' = (IF args.all THEN "all" ELSE "best")
            /\ rj' = 0 /\ rs' = 1 /\ errors' = errors /\ exitCode' = exitCode
       ELSE /\ rpc' = "done"
            /\ rj' = 0 /\ rs' = 0 /\ errors' = errors + 1 /\ exitCode' = ExitCode(errors + 1)
    /\ UNCHANGED << args, matched, allJobs, started >>
    /\ UNCHANGED compilerVars

\* runJobs: one iteration of the inner loop
RunJobsStep ==
    /\ rpc = "jobs"
    /\ rj <= Len(allJobs)
    /\ rs <= Len(allJobs[rj])
    /\ \E step \in JobStepOpts, child \in Children :
        LET result == runStep(step, child)
            after == runJobsStep(errors, result, rs, Len(allJobs[rj]))
        IN  /\ allJobs' = [allJobs EXCEPT ![rj][rs] = step]
            /\ errors' = after.errors
            /\ rs' = after.rs
            /\ started' = Record(rj, rs, result)
    /\ UNCHANGED << args, matched, rpc, rj, exitCode >>
    /\ UNCHANGED compilerVars

\* runJobs: the inner loop is left and the outer loop goes on
RunJobsNext ==
    /\ rpc = "jobs"
    /\ rj < Len(allJobs)
    /\ rs > Len(allJobs[rj])
    /\ rj' = rj + 1
    /\ rs' = 1
    /\ UNCHANGED << args, matched, allJobs, rpc, errors, started, exitCode >>
    /\ UNCHANGED compilerVars

\* runJobs returns the tally after the last job, and run exits
RunJobsReturn ==
    /\ rpc = "jobs"
    /\ rj > Len(allJobs) \/ (rj = Len(allJobs) /\ rs > Len(allJobs[rj]))
    /\ rpc' = "done"
    /\ exitCode' = ExitCode(errors)
    /\ UNCHANGED << args, matched, allJobs, rj, rs, errors, started >>
    /\ UNCHANGED compilerVars

\* runSteps without --all: the best match is run, and run exits
RunBest ==
    /\ rpc = "best"
    /\ \E child \in Children :
        LET result == runStep(matched[Best(matched)].step, child)
        IN  /\ errors' = errors + runStepsErrors(result)
            /\ exitCode' = ExitCode(errors + runStepsErrors(result))
            /\ started' = Record(0, Best(matched), result)
    /\ rpc' = "done"
    /\ UNCHANGED << args, matched, allJobs, rj, rs >>
    /\ UNCHANGED compilerVars

\* runSteps with --all: one iteration of the loop; run exits after the last
RunAllStep ==
    /\ rpc = "all"
    /\ rs <= Len(matched)
    /\ \E child \in Children :
        LET result == runStep(matched[rs].step, child)
        IN  /\ errors' = errors + runStepsErrors(result)
            /\ exitCode' = IF rs = Len(matched)
                           THEN ExitCode(errors + runStepsErrors(result)) ELSE exitCode
            /\ started' = Record(0, rs, result)
    /\ rs' = rs + 1
    /\ rpc' = IF rs = Len(matched) THEN "done" ELSE "all"
    /\ UNCHANGED << args, matched, allJobs, rj >>
    /\ UNCHANGED compilerVars

RunStepLists(n) == { [k \in 1..m |-> Unread] : m \in 0..n }

MatchedLists == UNION { [1..m -> [sort : { 0, 1 }, step : RunStepOpts]] : m \in 0..MaxSteps }

RunJobLists == UNION { [1..m -> RunStepLists(MaxSteps)] : m \in 0..MaxJobs }

\* the compiler is not part of a run of the local runner
CompilerIdle ==
    /\ setupSteps = <<>>
    /\ jobs = <<>>
    /\ cur = 0
    /\ pc = "idle"
    /\ i = 0
    /\ nodes = <<>>
    /\ ordering = <<>>
    /\ steps = <<>>
    /\ origin = <<>>
    /\ assignedPathIds = <<>>
    /\ error = <<>>
    /\ written = FALSE
    /\ source = <<>>
    /\ log = <<>>

\* one invocation of the runner: jobs by type, or a named step, or the job
\* of that name when no step matches
InitRun ==
    /\ CompilerIdle
    /\ args \in { [named |-> FALSE, all |-> FALSE], [named |-> TRUE, all |-> FALSE],
                  [named |-> TRUE, all |-> TRUE] }
    /\ matched \in MatchedLists
    /\ allJobs \in RunJobLists
    /\ args.named = FALSE => matched = <<>>
    /\ matched # <<>> => allJobs = <<>>
    /\ args.named => Len(allJobs) <= 1
    /\ rpc = "run"
    /\ rj = 0
    /\ rs = 0
    /\ errors = 0
    /\ started = <<>>
    /\ exitCode = <<>>

NextRun ==
    \/ RunStart
    \/ RunJobsStep
    \/ RunJobsNext
    \/ RunJobsReturn
    \/ RunBest
    \/ RunAllStep

SpecRun == InitRun /\ [][NextRun]_vars

(***************************************************************************)
(* Jobs whose steps name their paths in the ways addPaths accepts: one     *)
(* string, a list, a list in another order, a list that repeats a pattern, *)
(* and a pattern with the character addPaths joins the patterns with.      *)
(***************************************************************************)
PJavaHashJs == PJava \o << "#" >> \o PJs

PathsOpts ==
    { OneString(PJs), Array(<< PJs >>), Array(<< PJs, PJava >>), Array(<< PJava, PJs >>),
      Array(<< PJs, PJs >>), OneString(PJavaHashJs) }

PathsStepOpts ==
    { BlankStep } \cup { [BlankStep EXCEPT !.paths = p, !.setup = OneString("checkout")] : p \in PathsOpts }

PathsJobs ==
    { [setup |-> NoList, steps |-> NamedSteps(opts)] :
        opts \in UNION { [1..n -> PathsStepOpts] : n \in 0..MaxSteps } }

\* one call of compileSteps on such a job and the table of the fixture
InitPaths ==
    /\ setupSteps = TableFixture
    /\ \E j \in PathsJobs : jobs = << j >> /\ pc = StartPc(j)
    /\ cur = 1
    /\ i = 0
    /\ nodes = <<>>
    /\ ordering = <<>>
    /\ steps = <<>>
    /\ origin = <<>>
    /\ assignedPathIds = <<>>
    /\ error = <<>>
    /\ written = FALSE
    /\ source = [table |-> setupSteps, jobs |-> jobs, input |-> setupSteps, proc |-> 1, file |-> 1]
    /\ log = <<>>
    /\ RunnerIdle

SpecPaths == InitPaths /\ [][Next]_vars

(***************************************************************************)
(* Jobs with several bail_if steps and steps after them.                   *)
(***************************************************************************)
BailStepOpts ==
    { BlankStep,
      [BlankStep EXCEPT !.if = << "success()" >>],
      [BlankStep EXCEPT !.setup = OneString("one")],
      [BlankStep EXCEPT !.bail_if = BailOk],
      [BlankStep EXCEPT !.bail_if = BailDotted, !.id = << "s" >>, !.if = << "failure()" >>] }

BailJobs ==
    { [setup |-> NoList, steps |-> NamedSteps(opts)] :
        opts \in UNION { [1..n -> BailStepOpts] : n \in 0..(MaxSteps + 1) } }

\* one call of compileSteps on such a job and the table of the fixture
InitBails ==
    /\ setupSteps = TableFixture
    /\ \E j \in BailJobs : jobs = << j >> /\ pc = StartPc(j)
    /\ cur = 1
    /\ i = 0
    /\ nodes = <<>>
    /\ ordering = <<>>
    /\ steps = <<>>
    /\ origin = <<>>
    /\ assignedPathIds = <<>>
    /\ error = <<>>
    /\ written = FALSE
    /\ source = [table |-> setupSteps, jobs |-> jobs, input |-> setupSteps, proc |-> 1, file |-> 1]
    /\ log = <<>>
    /\ RunnerIdle

SpecBails == InitBails /\ [][Next]_vars

(***************************************************************************)
(* The job and the Setup table as written, and their reference sites.      *)
(***************************************************************************)
SrcJob == source.jobs[cur]

SrcTable == source.table

SrcSteps == SrcJob.steps

\* the setups a setup requires, as written
Requires(s) ==
    IF s \in DOMAIN SrcTable /\ ~SrcTable[s].isArray THEN Range(setupList(SrcTable[s].setup)) ELSE {}

\* the setups reachable from a set of setups along requires
RECURSIVE Reach(_)
Reach(S) ==
    LET T == S \cup UNION { Requires(s) : s \in S }
    IN  IF T = S THEN S ELSE Reach(T)

StepRefs(k) == Range(setupList(SrcSteps[k].setup))

JobRefs == Range(setupList(SrcJob.setup))

\* every setup the job reaches
Referenced == Reach(JobRefs \cup UNION { StepRefs(k) : k \in 1..Len(SrcSteps) })

\* the job steps that reference s directly or through setups that require it
Users(s) == { k \in 1..Len(SrcSteps) : s \in Reach(StepRefs(k)) }

\* the number of sites that name s: steps, the job, setups the job reaches
NumSites(s) ==
    Cardinality({ k \in 1..Len(SrcSteps) : s \in StepRefs(k) })
    + (IF s \in JobRefs THEN 1 ELSE 0)
    + Cardinality({ t \in Referenced : s \in Requires(t) })

HasPaths(k) == SrcSteps[k].paths.t # "none"

\* the setups some site needs unconditionally: named by a step without paths or
\* by the job, or required by a setup that is itself unconditional (checkout always is)
Unconditional ==
    Reach(JobRefs
          \cup UNION { StepRefs(k) : k \in { n \in 1..Len(SrcSteps) : ~HasPaths(n) } }
          \cup (Referenced \cap { "checkout" }))

\* the compiled list of the current job, each entry as the object it stands for
Out == [k \in 1..Len(job.steps) |-> Deref(job.steps[k], setupSteps)]

\* the list as the emission loop built it, before the bail rewrite
EmittedList == [k \in 1..Len(steps) |-> Deref(steps[k], setupSteps)]

PositionsOfRun(list, run) == { k \in 1..Len(list) : list[k].run = run }

PositionsOfStep(list, n) == { k \in 1..Len(list) : list[k].name = << "step ", ToString(n) >> }

PositionsFrom(key) == { k \in 1..Len(origin) : origin[k] = key }

ChangedToken == ".outputs.changed == 'true'"

GraphBuilt == pc \in { "checkout", "kahn", "emit", "bail", "compiled" }

(***************************************************************************)
(* C1: in a job that compiles, a setup named by two or more sites has each *)
(* of its steps in the compiled list exactly once, before every job step   *)
(* that references the setup directly or through other setups.             *)
(***************************************************************************)
C1_SetupOnceBeforeUsers ==
    pc = "compiled" =>
        \A s \in Referenced :
            NumSites(s) >= 2 =>
                \A j \in 1..Len(SrcTable[s].steps) :
                    /\ Cardinality(PositionsOfRun(Out, SrcTable[s].steps[j].run)) = 1
                    /\ \A n \in Users(s) :
                        \A p \in PositionsOfRun(Out, SrcTable[s].steps[j].run) :
                            \A q \in PositionsOfStep(Out, n) : p < q

C1_Witness ==
    /\ pc = "compiled"
    /\ \E s \in Referenced :
        /\ NumSites(s) >= 2
        /\ Len(SrcTable[s].steps) >= 1
        /\ Cardinality(Users(s)) >= 2
        /\ \A n \in Users(s) : PositionsOfStep(Out, n) # {}

(***************************************************************************)
(* C2: a setup that some site needs unconditionally has a null             *)
(* path-condition set once the graph is built, and none of the steps       *)
(* emitted for it carries a path-derived condition.                        *)
(***************************************************************************)
C2_UnconditionalWins ==
    /\ GraphBuilt =>
        \A s \in Unconditional : NodeOf(nodes, SetupKey(s)).pathDeps.null
    /\ pc \in { "bail", "compiled" } =>
        \A s \in Unconditional :
            \A k \in PositionsFrom(SetupKey(s)) :
                ~Contains((IF pc = "bail" THEN EmittedList ELSE Out)[k].if, ChangedToken)

\* a step with paths names the setup first, a step without paths names it later
C2_Witness ==
    /\ pc = "compiled"
    /\ \E s \in Unconditional \ { "checkout" } :
        /\ s \notin JobRefs
        /\ PositionsFrom(SetupKey(s)) # {}
        /\ \E k1, k2 \in 1..Len(SrcSteps) :
            /\ k1 < k2
            /\ HasPaths(k1) /\ s \in Reach(StepRefs(k1))
            /\ ~HasPaths(k2) /\ s \in Reach(StepRefs(k2))

(***************************************************************************)
(* C3 as claimed: if every site that references a setup has paths, the     *)
(* `if` of each step emitted for the setup is the `||` of the changed      *)
(* tests of exactly the path-checks of those sites.                        *)
(***************************************************************************)
\* the path-check nodes of the steps with paths that reference s
PathChecksOf(s) == { PathsKey(SortedPaths(SrcSteps[k].paths)) : k \in { n \in Users(s) : HasPaths(n) } }

\* every site that reaches s is a step with paths
AllSitesHavePaths(s) == s \notin Reach(JobRefs) /\ \A k \in Users(s) : HasPaths(k)

\* the id of the path-check step emitted for a path-check node
CheckId(list, key) == list[CHOOSE k \in PositionsFrom(key) : TRUE].id

\* the `||` of the changed tests of the path-checks in keys, in any order
OrsOver(list, keys) ==
    { Join([k \in 1..Cardinality(keys) |-> ChangedTest(CheckId(list, f[k]))], << " || " >>) :
        f \in { g \in [1..Cardinality(keys) -> keys] : \A a, b \in 1..Cardinality(keys) : a # b => g[a] # g[b] } }

C3_IfIsOrOfSitePaths ==
    pc = "compiled" =>
        \A s \in Referenced :
            AllSitesHavePaths(s) =>
                \A k \in PositionsFrom(SetupKey(s)) : Out[k].if \in OrsOver(Out, PathChecksOf(s))

(***************************************************************************)
(* C3 amended: if every site that references a setup has paths and the     *)
(* setup is neither checkout nor required, directly or through other       *)
(* setups, by checkout, then its path-condition set is exactly the set of  *)
(* path-checks of those sites, and the emission loop gives each of its     *)
(* steps the `||` of their changed tests as `if`, ANDed with the `if` the  *)
(* step has of its own; in a job without bail_if that is the final `if`.   *)
(***************************************************************************)
NoBails == \A k \in 1..Len(SrcSteps) : SrcSteps[k].bail_if = <<>>

\* the `if` a step emitted for setup s has of its own in the table as written
OwnIf(s, entry) ==
    LET js == { j \in 1..Len(SrcTable[s].steps) : SrcTable[s].steps[j].run = entry.run }
    IN  IF js = {} THEN <<>> ELSE SrcTable[s].steps[CHOOSE j \in js : TRUE].if

WithOwnIf(cond, own) == IF own = <<>> THEN cond ELSE andIfs(cond, own)

EmissionView == IF pc = "bail" THEN EmittedList ELSE Out

C3_IfIsOrOfSitePathsExceptCheckout ==
    (pc = "bail" \/ (pc = "compiled" /\ NoBails)) =>
        \A s \in Referenced \ Unconditional :
            /\ ~NodeOf(nodes, SetupKey(s)).pathDeps.null
            /\ Range(NodeOf(nodes, SetupKey(s)).pathDeps.keys) = PathChecksOf(s)
            /\ \A k \in PositionsFrom(SetupKey(s)) :
                \E cond \in OrsOver(EmissionView, PathChecksOf(s)) :
                    EmissionView[k].if = WithOwnIf(cond, OwnIf(s, EmissionView[k]))

\* a setup reached from two steps with different paths, one of them through another setup
C3_Witness ==
    /\ pc = "compiled"
    /\ NoBails
    /\ \E s \in Referenced \ Unconditional :
        /\ Cardinality(PathChecksOf(s)) >= 2
        /\ PositionsFrom(SetupKey(s)) # {}
        /\ \E k \in Users(s) : s \notin StepRefs(k)

(***************************************************************************)
(* C4: when the setups a job references form a cycle, compileSteps throws  *)
(* the cycle error, the message lists every edge left in the graph, both   *)
(* edges of the cycle among them, and job.steps is not replaced.           *)
(***************************************************************************)
Ended == pc \in { "compiled", "thrown" }

OnCycle(s) == s \in Reach(Requires(s))

\* no other input error: every setup reached is defined, paths come with checkout,
\* and the job has a first step for its own setup to hang on
NoOtherError ==
    /\ Referenced \subseteq DOMAIN SrcTable
    /\ (\E k \in 1..Len(SrcSteps) : HasPaths(k)) => "checkout" \in Referenced
    /\ Len(SrcSteps) >= 1

StepsNotReplaced ==
    /\ Len(job.steps) = Len(SrcSteps)
    /\ \A k \in 1..Len(SrcSteps) : job.steps[k] \in { SrcSteps[k], Stripped(SrcSteps[k]) }

C4_CycleIsReported ==
    (Ended /\ NoOtherError /\ \E s \in Referenced : OnCycle(s)) =>
        /\ pc = "thrown"
        /\ error = CycleMsg(EdgesLeft(nodes))
        /\ \A s \in Referenced : \A t \in Requires(s) :
            (OnCycle(s) /\ s \in Reach({ t })) => Contains(EdgesLeft(nodes), << SetupKey(t), SetupKey(s) >>)
        /\ StepsNotReplaced

(***************************************************************************)
(* C5: compileSteps never ends in unbounded recursion of propagatePaths    *)
(* (the engine's stack overflow); with cyclic setups it ends in the cycle  *)
(* error.                                                                  *)
(***************************************************************************)
C5_NoUnboundedRecursion ==
    Ended => /\ error # RangeErrorMsg
             /\ (NoOtherError /\ \E s \in Referenced : OnCycle(s)) => (pc = "thrown" /\ error[1] = CycleMsgHead)

(***************************************************************************)
(* C6: a job in which neither a step nor the job uses setup, paths or      *)
(* bail_if compiles to its own step list: same steps, same order, nothing  *)
(* added, only local and local_env_flag removed.                           *)
(***************************************************************************)
PlainJob ==
    /\ SrcJob.setup = NoList
    /\ \A k \in 1..Len(SrcSteps) :
        SrcSteps[k].setup = NoList /\ SrcSteps[k].paths = NoList /\ SrcSteps[k].bail_if = <<>>

C6_PlainJobUnchanged ==
    (Ended /\ PlainJob) =>
        /\ pc = "compiled"
        /\ Out = [k \in 1..Len(SrcSteps) |-> [SrcSteps[k] EXCEPT !.local = FALSE, !.local_env_flag = <<>>]]

C6_Witness ==
    /\ pc = "compiled"
    /\ PlainJob
    /\ Len(SrcSteps) >= 2
    /\ SrcSteps[2].local /\ SrcSteps[2].if # <<>> /\ SrcSteps[1].if = <<>>
    /\ Out[2].if = SrcSteps[2].if /\ Out[2].name = SrcSteps[2].name

(***************************************************************************)
(* What the bail rewrite is to produce, stated position by position.       *)
(***************************************************************************)
\* the positions of s where `outputs.` starts and is not preceded by a dot
OutputsAt(s) ==
    { k \in 1..Len(s) : /\ k + 7 <= Len(s)
                        /\ SubSeq(s, k, k + 7) = OutputsDot
                        /\ (k = 1 \/ s[k - 1] # ".") }

\* s with `steps.<id>.` put in front of each of those occurrences
Namespaced(s, id) ==
    Flatten([k \in 1..Len(s) |->
        IF k \in OutputsAt(s) THEN << "steps." >> \o id \o << ".outputs." >>
        ELSE IF \E m \in OutputsAt(s) : m < k /\ k <= m + 7 THEN <<>>
        ELSE << s[k] >>])

Negated(bail_if, id) == << "!(" >> \o Namespaced(bail_if, id) \o << ")" >>

\* cond ANDed in front of an `if`, or alone when there is none
Gated(cond, prior) == IF prior = <<>> THEN cond ELSE andIfs(cond, prior)

\* prior gated by the conditions in conds, the first one innermost
RECURSIVE GatedByAll(_, _)
GatedByAll(conds, prior) ==
    IF conds = <<>> THEN prior ELSE GatedByAll(Tail(conds), Gated(Head(conds), prior))

\* the bail_if an entry of the compiled list had in the file as written
SrcBailIf(entry) ==
    LET ns == { n \in 1..Len(SrcSteps) : entry.name = << "step ", ToString(n) >> }
        ss == { sj \in { << s, j >> : s \in DOMAIN SrcTable, j \in 1..MaxSteps + 1 } :
                    /\ sj[2] <= Len(SrcTable[sj[1]].steps)
                    /\ entry.run # <<>>
                    /\ SrcTable[sj[1]].steps[sj[2]].run = entry.run }
    IN  IF ns # {} THEN SrcSteps[CHOOSE n \in ns : TRUE].bail_if
        ELSE IF ss # {} THEN LET sj == CHOOSE x \in ss : TRUE IN SrcTable[sj[1]].steps[sj[2]].bail_if
        ELSE <<>>

\* the negated conditions of the bail steps before position q of the compiled list, in order
NegatedBefore(list, q) ==
    LET bs == SelectSeq([k \in 1..Len(list) |-> k], LAMBDA k : k < q /\ SrcBailIf(list[k]) # <<>>)
    IN  [j \in 1..Len(bs) |-> Negated(SrcBailIf(list[bs[j]]), list[bs[j]].id)]

(***************************************************************************)
(* C7 as claimed: for a step with paths P the compiled list holds, in this *)
(* order, the steps of checkout (no path condition), the path-check step   *)
(* compiled from P and the step itself, whose `if` is exactly the changed  *)
(* test of that path-check, ANDed with the `if` the step had.              *)
(***************************************************************************)
PathsOrder(list, k) ==
    \E p \in PositionsFrom(PathsKey(SortedPaths(SrcSteps[k].paths))) :
        /\ [list[p] EXCEPT !.if = <<>>] = compilePaths(list[p].id, SortedPaths(SrcSteps[k].paths)).step
        /\ PositionsFrom(SetupKey("checkout")) # {}
        /\ \A c \in PositionsFrom(SetupKey("checkout")) : c < p /\ ~Contains(list[c].if, ChangedToken)
        /\ \A q \in PositionsOfStep(list, k) : p < q

\* the `if` the emission loop gives step k
PathsIf(list, k) ==
    Gated(ChangedTest(CheckId(list, PathsKey(SortedPaths(SrcSteps[k].paths)))), SrcSteps[k].if)

BailPositions(list) == { b \in 1..Len(list) : list[b].bail_if # <<>> }

BailId(list, b) ==
    IF list[b].id # <<>> THEN list[b].id
    ELSE << "bail_if_", ToString(Cardinality({ a \in BailPositions(list) : a <= b })) >>

\* the negated conditions of the bail steps of list before position q, in order
BailConds(list, q) ==
    LET bs == SelectSeq([k \in 1..Len(list) |-> k], LAMBDA k : k < q /\ k \in BailPositions(list))
    IN  [j \in 1..Len(bs) |-> Negated(list[bs[j]].bail_if, BailId(list, bs[j]))]

Rewritten(pre, post) ==
    /\ Len(post) = Len(pre)
    /\ \A q \in 1..Len(pre) :
        post[q] = [pre[q] EXCEPT !.id = IF q \in BailPositions(pre) THEN BailId(pre, q) ELSE @,
                                 !.bail_if = <<>>,
                                 !.if = GatedByAll(BailConds(pre, q), @)]

C8_BailRewrite == [][pc = "bail" => Rewritten(EmittedList, Out')]_vars

\* a bail step given a generated id, then a step that had no `if` and one that had
C8_Witness ==
    /\ pc = "compiled"
    /\ \E b, q1, q2 \in 1..Len(Out) :
        /\ b < q1 /\ b < q2
        /\ SrcBailIf(Out[b]) # <<>>
        /\ Out[b].id = << "bail_if_", "1" >>
        /\ Out[b].bail_if = <<>>
        /\ Out[q1].if = Negated(SrcBailIf(Out[b]), Out[b].id)
        /\ Len(Out[q2].if) > Len(Out[q1].if) + 2
        /\ SubSeq(Out[q2].if, 1, Len(Out[q1].if) + 2) = << "(" >> \o Out[q1].if \o << ") && (" >>

(***************************************************************************)
(* The calls of compileSteps that have ended so far, the last one          *)
(* included.                                                               *)
(***************************************************************************)
History ==
    IF pc \in { "compiled", "thrown" } /\ ~written THEN Append(log, Compilation) ELSE log

(***************************************************************************)
(* C9: two calls of compileSteps one after the other in the same process   *)
(* on equal inputs (equal jobs, equal Setup tables) end alike: the same    *)
(* compiled list, with its path-check ids, bail ids and `if`s, or the same *)
(* error.                                                                  *)
(***************************************************************************)
C9_EqualInputsEqualOutputs ==
    \A n \in 1..Len(History) - 1 :
        ( /\ History[n].proc = History[n + 1].proc
          /\ History[n].job = History[n + 1].job
          /\ History[n].input = History[n + 1].input )
        => /\ History[n].out = History[n + 1].out
           /\ History[n].err = History[n + 1].err

\* a job compiled twice in a row in a process whose registry an earlier job
\* had filled: both lists carry the bail id and the same suffixed path-check id
C9_Witness ==
    \E n \in 1..Len(History) - 1 :
        /\ History[n].proc = History[n + 1].proc
        /\ History[n].job = History[n + 1].job
        /\ History[n].input = History[n + 1].input
        /\ History[n].out = History[n + 1].out
        /\ \E a, b \in 1..Len(History[n + 1].out) :
            /\ History[n + 1].out[a].id = << "bail_if_", "1" >>
            /\ History[n + 1].out[b].id = << "paths_", "_", "j", "s", "-", "1" >>

(***************************************************************************)
(* C10: the compiled output of a job is a function of the job and of the   *)
(* Setup table as written: two calls on the same job and the same table    *)
(* text end alike whatever was compiled before them.                       *)
(***************************************************************************)
C10_OutputDependsOnlyOnSource ==
    \A a, b \in 1..Len(History) :
        (History[a].job = History[b].job /\ History[a].table = History[b].table)
        => (History[a].out = History[b].out /\ History[a].err = History[b].err)

(***************************************************************************)
(* C11: compileSteps never modifies the Setup table: every setup entry and *)
(* every step object in it is, at every point of the call, as the file     *)
(* gave it.                                                                *)
(***************************************************************************)
C11_SetupTableUntouched == setupSteps = source.input

(***************************************************************************)
(* C12: while the graph is built and afterwards, the node setup-checkout   *)
(* has a null path-condition set whatever referenced it, and so has every  *)
(* setup node checkout has an edge to; when checkout is on no cycle of     *)
(* requires, so has every setup checkout reaches.                          *)
(***************************************************************************)
\* the setup nodes reachable from node key along `before` edges, key included
RECURSIVE SetupsBelow(_)
SetupsBelow(S) ==
    LET T == S \cup { k \in UNION { Range(NodeOf(nodes, n).before) : n \in S } : k[1] = "setup" }
    IN  IF T = S THEN S ELSE SetupsBelow(T)

IsNull(key) == NodeOf(nodes, key).pathDeps.null

Undefined == { s \in Referenced : s \notin DOMAIN SrcTable }

C13_UnknownSetupIsReported ==
    (Ended /\ Undefined # {}) =>
        /\ pc = "thrown"
        /\ \E s \in Undefined : error = InvalidSetupMsg(s)
        /\ StepsNotReplaced

(***************************************************************************)
(* C14: the missing-checkout error is raised exactly when a step of the    *)
(* job has paths and the Setup table has no `checkout`; when the table     *)
(* has one, every path-check node depends on setup-checkout and the error  *)
(* is not raised, whether or not a step or the job names checkout.         *)
(***************************************************************************)
SomePaths == \E k \in 1..Len(SrcSteps) : HasPaths(k)

PathsNodes == { k \in Range(NodeIds(nodes)) : k[1] = "paths" }

C14_MissingCheckoutIffNoneInTable ==
    /\ error = NoCheckoutMsg => (SomePaths /\ "checkout" \notin DOMAIN SrcTable)
    /\ (Ended /\ SomePaths /\ "checkout" \notin DOMAIN SrcTable /\ Undefined = {} /\ error # RangeErrorMsg)
            => error = NoCheckoutMsg
    /\ (pc = "kahn" /\ "checkout" \in DOMAIN SrcTable)
            => \A k \in PathsNodes : Contains(NodeOf(nodes, k).before, SetupKey("checkout"))

(***************************************************************************)
(* C15: processFile writes its output only after every job of the file     *)
(* has compiled: a file in which a job threw is never written.             *)
(***************************************************************************)
\* the calls of compileSteps made for the file being processed
OfThisFile == SelectSeq(History, LAMBDA e : e.file = source.file /\ e.proc = source.proc)

C15_WrittenOnlyIfAllCompiled ==
    /\ pc = "thrown" => ~written
    /\ written =>
        /\ error = <<>>
        /\ Len(OfThisFile) = Len(jobs)
        /\ \A n \in 1..Len(jobs) :
            /\ OfThisFile[n].job = source.jobs[n]
            /\ OfThisFile[n].err = <<>>
            /\ Len(OfThisFile[n].out) > 0

\* the first job of a file compiled and the second threw
C15_Witness ==
    /\ pc = "thrown"
    /\ cur = 2
    /\ ~written
    /\ Len(OfThisFile) = 2
    /\ OfThisFile[1].err = <<>>
    /\ OfThisFile[2].err # <<>>

(***************************************************************************)
(* The child processes of one invocation of the runner.                    *)
(***************************************************************************)
\* a child process exited non-zero or printed a line that begins with :error:
WentWrong(e) == e.result.failed \/ e.result.errors > 0

SomeStepWentWrong == \E n \in 1..Len(started) : WentWrong(started[n])

\* the children spawned for the steps of job j
OfJob(j) == { n \in 1..Len(started) : started[n].job = j }

\* step s of job j comes after a step of the job whose process exited non-zero
AfterFailure(j, s) ==
    \E n \in OfJob(j) : started[n].step < s /\ started[n].result.failed

RECURSIVE TallyOf(_)
TallyOf(list) ==
    IF list = <<>> THEN 0
    ELSE (IF list[1].result.failed THEN 1 ELSE list[1].result.errors) + TallyOf(Tail(list))

(***************************************************************************)
(* C16: in every mode of the runner (jobs, one named step, all matching    *)
(* steps) the exit code is 1 whenever a step that was run exited non-zero  *)
(* or printed a line beginning with :error:, and 0 only when none did.     *)
(***************************************************************************)
C16_ExitCodeReportsEveryFailure ==
    rpc = "done" =>
        /\ SomeStepWentWrong => exitCode = 1
        /\ exitCode = 0 => ~SomeStepWentWrong

(***************************************************************************)
(* C17: in runJobs no step of a job is started after a step of that job    *)
(* whose process exited non-zero, the failure counts in the tally, and     *)
(* every job, whatever happened in the jobs before it, has its steps run   *)
(* from the first one.                                                     *)
(***************************************************************************)
C17_FailureStopsOnlyItsJob ==
    (rpc \in { "jobs", "done" } /\ rj >= 1) =>
        /\ \A m, n \in 1..Len(started) :
            (m < n /\ started[m].result.failed) => started[n].job > started[m].job
        /\ errors = TallyOf(started)
        /\ \A n \in 1..Len(started) : started[n].result.failed => errors >= 1
        /\ \A j \in 1..Len(allJobs) : \A s \in 1..Len(allJobs[j]) :
            (j < rj \/ (j = rj /\ s < rs)) =>
                /\ AfterFailure(j, s) => allJobs[j][s] = Unread
                /\ (\E n \in OfJob(j) : started[n].step = s)
                        <=> (~AfterFailure(j, s) /\ Spawns(allJobs[j][s]))

\* the first step of the first job failed, its second step was not started,
\* and the second job ran its first step
C17_Witness ==
    /\ rpc = "done"
    /\ Len(allJobs) = 2
    /\ Len(allJobs[1]) = 2
    /\ allJobs[1][1] = Shell
    /\ allJobs[1][2] = Unread
    /\ Len(started) = 2
    /\ started[1].job = 1 /\ started[1].step = 1 /\ started[1].result.failed
    /\ started[2].job = 2 /\ started[2].step = 1
    /\ errors >= 1

(***************************************************************************)
(* C18: within a job, two steps have the same path-check node exactly when *)
(* their paths name the same patterns (in any order, a string counting as  *)
(* a list of one), and the compiled list has one path-check step for each  *)
(* distinct set of patterns.                                               *)
(***************************************************************************)
\* the patterns step k names, as written
PatternsOf(k) ==
    Range(IF SrcSteps[k].paths.t = "string" THEN << SrcSteps[k].paths.v >> ELSE SrcSteps[k].paths.v)

WithPaths == { k \in 1..Len(SrcSteps) : HasPaths(k) }

\* the path-check nodes the node of step k was created with
CheckOf(k) == Range(NodeOf(nodes, StepKey(k - 1)).pathDeps.keys)

PathCheckPositions == { p \in 1..Len(origin) : origin[p][1] = "paths" }

C18_OneCheckPerPatternSet ==
    /\ (GraphBuilt /\ pc # "checkout") =>
        \A k, m \in WithPaths :
            /\ Cardinality(CheckOf(k)) = 1
            /\ (PatternsOf(k) = PatternsOf(m)) <=> (CheckOf(k) = CheckOf(m))
    /\ pc = "compiled" =>
        Cardinality(PathCheckPositions) = Cardinality({ PatternsOf(k) : k \in WithPaths })

(***************************************************************************)
(* C19: while the graph of a job is built, the path conditions of a node   *)
(* only gain path-check ids or are cleared to null as a whole: no id       *)
(* leaves a set that stays non-null, and null stays null.                  *)
(***************************************************************************)
DepsOf(g, key) == NodeOf(g, key).pathDeps

\* one step of the build, seen from the nodes there were before it
WidenedOrCleared ==
    pc \in { "steps", "jobsetup", "checkout", "kahn" } =>
        \A key \in Range(NodeIds(nodes)) :
            /\ Has(nodes', key)
            /\ DepsOf(nodes, key).null => DepsOf(nodes', key).null
            /\ ~DepsOf(nodes', key).null =>
                    Range(DepsOf(nodes, key).keys) \subseteq Range(DepsOf(nodes', key).keys)

C19_PathDepsWidenOrClear == [][WidenedOrCleared]_vars

\* setup two gained the path-checks of two steps and was then cleared by
\* the job's own reference
C19_Witness ==
    /\ pc = "kahn"
    /\ Len(SrcSteps) = 2
    /\ HasPaths(1) /\ HasPaths(2)
    /\ SortedPaths(SrcSteps[1].paths) # SortedPaths(SrcSteps[2].paths)
    /\ "two" \in StepRefs(1) \cap StepRefs(2) \cap JobRefs
    /\ IsNull(SetupKey("two"))

(***************************************************************************)
(* C20: on a graph without a cycle kahnsAlgorithm returns every node id    *)
(* once, each after all the nodes in its `before` set; and so the steps of *)
(* the job keep their order in the compiled list.                          *)
(***************************************************************************)
\* the nodes reached from the set S along `before` edges of the graph g
RECURSIVE BeforeClosure(_, _)
BeforeClosure(g, S) ==
    LET more == S \cup UNION { Range(NodeOf(g, k).before) : k \in S }
    IN  IF more = S THEN S ELSE BeforeClosure(g, more)

Acyclic(g) ==
    \A k \in Range(NodeIds(g)) : k \notin BeforeClosure(g, Range(NodeOf(g, k).before))

\* list is an ordering of the graph g
TopologicalOrder(g, list) ==
    /\ Len(list) = Len(g)
    /\ \A k \in Range(NodeIds(g)) : Cardinality({ p \in 1..Len(list) : list[p] = k }) = 1
    /\ \A k \in Range(NodeIds(g)) : \A b \in Range(NodeOf(g, k).before) :
            IndexOf(list, b) < IndexOf(list, k)

StepsInOrder(list) ==
    \A k \in 1..Len(SrcSteps) :
        /\ Cardinality(PositionsOfStep(list, k)) = 1
        /\ \A m \in 1..(k - 1) :
            \A p \in PositionsOfStep(list, m), q \in PositionsOfStep(list, k) : p < q

KahnStep ==
    /\ (pc = "kahn" /\ Acyclic(nodes)) =>
            pc' = "emit" /\ TopologicalOrder(nodes, ordering')
    /\ pc' = "compiled" => StepsInOrder(Out')

C20_KahnOrdersEveryNodeAfterItsBefore == [][KahnStep]_vars

\* a job of two steps whose graph has a node with two nodes before it compiled
C20_Witness ==
    /\ pc = "compiled"
    /\ Len(SrcSteps) = 2
    /\ Len(ordering) >= 5
    /\ PositionsOfStep(Out, 1) # {}
    /\ PositionsOfStep(Out, 2) # {}
    /\ PositionsFrom(SetupKey("one")) # {}

(***************************************************************************)
(* C21: kahnsAlgorithm takes the ready nodes first in, first out: the      *)
(* nodes ready at the start come first, in the order they were created; a  *)
(* node that becomes ready comes behind those already waiting, and nodes   *)
(* made ready by the same node come in the order of its edges.             *)
(***************************************************************************)
ReadyAtStart(g) == SelectSeq(NodeIds(g), LAMBDA k : NodeOf(g, k).before = <<>>)

\* the node of the `before` set of k that comes last in list: its removal makes k ready
Releaser(g, list, k) ==
    CHOOSE b \in Range(NodeOf(g, k).before) :
        \A c \in Range(NodeOf(g, k).before) : IndexOf(list, c) <= IndexOf(list, b)

\* k waits in front of m: made ready by an earlier node, or by the same node
\* through an edge added earlier
WaitsBefore(g, list, k, m) ==
    LET rk == Releaser(g, list, k)
        rm == Releaser(g, list, m)
    IN  \/ IndexOf(list, rk) < IndexOf(list, rm)
        \/ rk = rm /\ IndexOf(NodeOf(g, rk).after, k) < IndexOf(NodeOf(g, rk).after, m)

FirstInFirstOut(g, list) ==
    LET n0 == Len(ReadyAtStart(g))
    IN  /\ Len(list) >= n0
        /\ SubSeq(list, 1, n0) = ReadyAtStart(g)
        /\ \A p, q \in (n0 + 1)..Len(list) :
            p < q => WaitsBefore(g, list, list[p], list[q])

FifoStep == (pc = "kahn" /\ pc' = "emit") => FirstInFirstOut(nodes, ordering')

C21_ReadyNodesFirstInFirstOut == [][FifoStep]_vars

\* checkout made the path-checks of two steps ready, one behind the other
C21_Witness ==
    /\ pc = "emit"
    /\ Len(SrcSteps) = 2
    /\ HasPaths(1) /\ HasPaths(2)
    /\ Cardinality(PathsNodes) = 2
    /\ \A k \in PathsNodes : IndexOf(ordering, SetupKey("checkout")) < IndexOf(ordering, k)
    /\ Len(ordering) >= 6

(***************************************************************************)
(* C22: a setup without steps (a record without `steps`, a record whose    *)
(* `steps` is empty, an empty list) puts no step in the compiled list,     *)
(* neither a start marker nor an end marker.                               *)
(***************************************************************************)
WithoutSteps == { s \in DOMAIN SrcTable : Len(SrcTable[s].steps) = 0 }

C22_NoStepsNoMarkers ==
    pc \in { "bail", "compiled" } =>
        \A s \in WithoutSteps :
            /\ PositionsFrom(SetupKey(s)) = {}
            /\ \A k \in 1..Len(EmittedList) :
                EmittedList[k].name \notin { StartMarker(s).name, EndMarker(s).name }

(***************************************************************************)
(* C23: a setup of two or more steps is emitted as one block: a start      *)
(* marker, its steps in their order, an end marker, with nothing between   *)
(* them; each of them carries the condition of the setup node, ANDed with  *)
(* the `if` a step of the setup has of its own.                            *)
(***************************************************************************)
Blocks == { s \in DOMAIN SrcTable : Len(SrcTable[s].steps) >= 2 /\ Has(nodes, SetupKey(s)) }

\* the conditions the path-condition set of the node of s stands for
NodeConds(list, s) ==
    LET deps == NodeOf(nodes, SetupKey(s)).pathDeps
    IN  IF deps.null THEN { <<>> } ELSE OrsOver(list, Range(deps.keys))

IsBlock(list, s, first, cond) ==
    LET own == SrcTable[s].steps
    IN  /\ PositionsFrom(SetupKey(s)) = first..(first + Len(own) + 1)
        /\ list[first] = [StartMarker(s) EXCEPT !.if = cond]
        /\ \A k \in 1..Len(own) :
            list[first + k] = [own[k] EXCEPT !.if = IF cond = <<>> THEN @ ELSE WithOwnIf(cond, @)]
        /\ list[first + Len(own) + 1] = [EndMarker(s) EXCEPT !.if = cond]

C23_SetupBlockSharesCondition ==
    pc = "bail" =>
        \A s \in Blocks :
            \E first \in 1..Len(EmittedList) : \E cond \in NodeConds(EmittedList, s) :
                IsBlock(EmittedList, s, first, cond)

\* a setup of two steps, one with an `if` of its own, under a path condition
C23_Witness ==
    /\ pc = "bail"
    /\ \E s \in Blocks :
        /\ ~NodeOf(nodes, SetupKey(s)).pathDeps.null
        /\ \E k \in 1..Len(SrcTable[s].steps) : SrcTable[s].steps[k].if # <<>>
        /\ \E p \in PositionsFrom(SetupKey(s)) : Contains(EmittedList[p].if, ") && (")

(***************************************************************************)
(* C24: with several bail_if steps in a compiled list, a later bail step   *)
(* is itself gated by the negated condition of every bail step before it,  *)
(* and a step behind it by the negated conditions of all the bail steps    *)
(* that precede that step, each namespaced by the id of its own bail step. *)
(***************************************************************************)
\* the `if` the rewrite is to leave at position q of pre
GatedIf(pre, q) == GatedByAll(BailConds(pre, q), pre[q].if)

BailsCompose(pre, post) ==
    /\ Len(post) = Len(pre)
    /\ \A b1, b2 \in BailPositions(pre) :
        b1 < b2 =>
            /\ Contains(BailConds(pre, b2), Negated(pre[b1].bail_if, BailId(pre, b1)))
            /\ post[b2].if = GatedIf(pre, b2)
            /\ post[b1].id = BailId(pre, b1) /\ post[b2].id = BailId(pre, b2)
            /\ \A q \in (b2 + 1)..Len(pre) :
                /\ Len(BailConds(pre, q)) >= 2
                /\ post[q].if = GatedIf(pre, q)

ComposeStep == pc = "bail" => BailsCompose(EmittedList, Out')

C24_BailsCompose == [][ComposeStep]_vars

\* two bail steps and a step behind them that had an `if`
C24_Witness ==
    /\ pc = "compiled"
    /\ Len(Out) >= 3
    /\ \E b1, b2, q \in 1..Len(Out) :
        /\ b1 < b2 /\ b2 < q
        /\ SrcBailIf(Out[b1]) # <<>>
        /\ SrcBailIf(Out[b2]) # <<>>
        /\ Out[b1].id # Out[b2].id
        /\ Contains(Out[b2].if, "!(")
        /\ Contains(Out[q].if, "success()")

(***************************************************************************)
(* C25: the bail rewrite changes the `if` only of steps strictly behind a  *)
(* bail step: a step with no bail step before it keeps its `if`, a bail    *)
(* step is not gated by its own condition, and afterwards no step of the   *)
(* list has a bail_if.                                                     *)
(***************************************************************************)
BailFrame(pre, post) ==
    /\ Len(post) = Len(pre)
    /\ \A q \in 1..Len(pre) :
        /\ post[q].bail_if = <<>>
        /\ (\A b \in BailPositions(pre) : q <= b) => post[q].if = pre[q].if
        /\ \A b \in BailPositions(pre) :
            LET cond == Negated(pre[b].bail_if, BailId(pre, b))
                \* the places of post[q].if where cond stands
                at == { k \in 1..Len(post[q].if) :
                            /\ k + Len(cond) - 1 <= Len(post[q].if)
                            /\ SubSeq(post[q].if, k, k + Len(cond) - 1) = cond }
                \* the bail steps in front of q whose negated condition reads the same
                by == { c \in BailPositions(pre) :
                            c < q /\ Negated(pre[c].bail_if, BailId(pre, c)) = cond }
            IN  Cardinality(at) = Cardinality(by)
        /\ [post[q] EXCEPT !.if = <<>>, !.id = <<>>, !.bail_if = <<>>]
                = [pre[q] EXCEPT !.if = <<>>, !.id = <<>>, !.bail_if = <<>>]

FrameStep == pc = "bail" => BailFrame(EmittedList, Out')

C25_OnlyLaterStepsGated == [][FrameStep]_vars

\* a step with an `if` in front of a bail step that has an `if`, and a step behind it
C25_Witness ==
    /\ pc = "compiled"
    /\ \E p, b, q \in 1..Len(Out) :
        /\ p < b /\ b < q
        /\ SrcBailIf(Out[b]) # <<>>
        /\ SrcBailIf(Out[p]) = <<>>
        /\ Out[p].if = << "success()" >>
        /\ Out[b].if = << "failure()" >>
        /\ Contains(Out[q].if, "!(")


(***************************************************************************)
(* C26: a job that declares a job-level setup has that setup hung on its   *)
(* first step: the call never dies on a missing first step, the setup      *)
(* node is unconditional, and in the emitted list the setup's steps stand  *)
(* before the first original step and carry no path-derived condition,     *)
(* also when steps of the job name the same setup with paths.              *)
(***************************************************************************)
JobSetupFirst ==
    \A s \in JobRefs :
        /\ IsNull(SetupKey(s))
        /\ \A p \in PositionsFrom(SetupKey(s)) :
            /\ \A q \in PositionsFrom(StepKey(0)) : p < q
            /\ ~Contains(EmittedList[p].if, ChangedToken)

C26_JobSetupBeforeFirstStep ==
    /\ (Ended /\ JobRefs # {}) => error # TypeErrorMsg
    /\ (pc = "bail" /\ JobRefs # {}) => JobSetupFirst

\* the part of C26 that holds: jobs that have a first step
C26_HoldsWithFirstStep ==
    (pc = "bail" /\ JobRefs # {}) => JobSetupFirst

C26_WithFirstStepReached ==
    /\ pc = "bail"
    /\ \E s \in JobRefs : \E k \in 1..Len(SrcSteps) :
            /\ HasPaths(k) /\ s \in StepRefs(k)
            /\ s # "checkout"
            /\ PositionsFrom(SetupKey(s)) # {}


(***************************************************************************)
(* C27: within one process, whatever jobs and files are compiled in         *)
(* whatever order, two calls of makePathsId return the same id exactly     *)
(* when their pattern lists are equal element by element.  The registry    *)
(* remembers every call: an id keeps the list it was assigned to for the   *)
(* life of the process, no list holds two ids, and every id a call         *)
(* returns is the one registered to the list of that call; lists whose     *)
(* sanitized names collide are told apart by the numeric suffix.           *)
(***************************************************************************)
SameProcess == source'.proc = source.proc

MakePathsIdStep ==
    /\ SameProcess =>
        \A key \in DOMAIN assignedPathIds :
            key \in DOMAIN assignedPathIds' /\ assignedPathIds'[key] = assignedPathIds[key]
    /\ \A a, b \in DOMAIN assignedPathIds' :
            assignedPathIds'[a] = assignedPathIds'[b] => a = b
    /\ (pc = "emit" /\ pc' = "bail") =>
        \A p \in 1..Len(origin') :
            origin'[p][1] = "paths" =>
                LET id   == EmittedList'[p].id
                    list == NodeOf(nodes, origin'[p]).contents.paths
                IN  id \in DOMAIN assignedPathIds' /\ assignedPathIds'[id] = list

C27_SameIdIffSameList == [][MakePathsIdStep]_vars

\* a job whose path-check got a suffixed id, because an earlier call of the
\* process holds the plain name for another list
C27_Witness ==
    /\ pc = "bail"
    /\ \E a, b \in DOMAIN assignedPathIds :
        /\ a # b
        /\ PathsIdText(assignedPathIds[a]) = PathsIdText(assignedPathIds[b])
        /\ assignedPathIds[a] # assignedPathIds[b]
        /\ b = PathsIdKey(PathsIdText(assignedPathIds[b]), 1)
        /\ \E p \in 1..Len(EmittedList) : origin[p][1] = "paths" /\ EmittedList[p].id = b


(***************************************************************************)
(* C28: at every point of graph building and afterwards, every path-check  *)
(* id in a node's pathDeps is a path-check node of the graph and is in     *)
(* that node's `before`; and in the emitted list every step that came from *)
(* a node with pathDeps tests, for each of them, the generated id of a     *)
(* path-check step that stands earlier in the list: no `if` reads an id    *)
(* that was not assigned yet.                                              *)
(***************************************************************************)
HasInfix(s, t) ==
    \E k \in 1..(Len(s) - Len(t) + 1) : SubSeq(s, k, k + Len(t) - 1) = t

PathIdsOf(key) == IF IsNull(key) THEN {} ELSE Range(NodeOf(nodes, key).pathDeps.keys)

\* the graph is being built, or is built and not yet handed to kahnsAlgorithm,
\* which takes the edges out again
GraphBuilding == pc \in { "steps", "jobsetup", "checkout", "kahn" }

C28_PathDepsAreBefore ==
    /\ GraphBuilding => \A key \in Range(NodeIds(nodes)) :
        \A d \in PathIdsOf(key) :
            /\ d[1] = "paths"
            /\ Has(nodes, d)
            /\ Contains(NodeOf(nodes, key).before, d)
    /\ pc = "bail" =>
        \A p \in 1..Len(origin) :
            /\ ~Contains(EmittedList[p].if, "undefined")
            /\ \A d \in PathIdsOf(origin[p]) :
                \E q \in 1..(p - 1) :
                    /\ origin[q] = d
                    /\ EmittedList[q].id # <<>>
                    /\ HasInfix(EmittedList[p].if, ChangedTest(EmittedList[q].id))

\* a setup two steps reach with different paths: its steps test both path-checks
C28_Witness ==
    /\ pc = "bail"
    /\ \E p \in 1..Len(origin) :
        /\ origin[p][1] = "setup"
        /\ Cardinality(PathIdsOf(origin[p])) = 2
        /\ \A d \in PathIdsOf(origin[p]) : \E q \in 1..(p - 1) : origin[q] = d


(***************************************************************************)
(* C29: when no setup of the table requires itself, directly or through    *)
(* other setups, every setup the job reaches is defined and the table has  *)
(* a checkout, compileSteps does not end in the cycle error, whatever      *)
(* paths and setup references the steps of the job carry.                  *)
(***************************************************************************)
SetupsAcyclic == \A s \in DOMAIN SrcTable : ~OnCycle(s)

IsCycleError == error # <<>> /\ error[1] = CycleMsgHead

C29_NoCycleErrorWithoutSetupCycle ==
    ( /\ SetupsAcyclic
      /\ Referenced \subseteq DOMAIN SrcTable
      /\ "checkout" \in DOMAIN SrcTable )
    => ~IsCycleError


(***************************************************************************)
(* C30: when the graph is built, a setup runs whenever something that      *)
(* requires it runs: for every edge from a step node or a setup node P to  *)
(* a setup node Q, either Q has no path condition (pathDeps null), or P    *)
(* has one and every path-check of P is a path-check of Q.                 *)
(***************************************************************************)
RequiringEdges ==
    { e \in Range(NodeIds(nodes)) \X Range(NodeIds(nodes)) :
        /\ e[1][1] \in { "step", "setup" }
        /\ e[2][1] = "setup"
        /\ Contains(NodeOf(nodes, e[1]).before, e[2]) }

C30_RequiredSetupRunsWhenever ==
    pc = "kahn" =>
        \A e \in RequiringEdges :
            \/ IsNull(e[2])
            \/ ~IsNull(e[1]) /\ PathIdsOf(e[1]) \subseteq PathIdsOf(e[2])

\* a setup that requires another was reached from two steps with different
\* paths: both setups hold both path-checks
C30_Witness ==
    /\ pc = "kahn"
    /\ \E e \in RequiringEdges :
        /\ e[1][1] = "setup"
        /\ Cardinality(PathIdsOf(e[1])) = 2
        /\ PathIdsOf(e[2]) = PathIdsOf(e[1])
    /\ \E e \in RequiringEdges :
        /\ e[1][1] = "step"
        /\ Cardinality(PathIdsOf(e[1])) = 1
        /\ Cardinality(PathIdsOf(e[2])) = 2

====
